---- MODULE Spec2Model ----
(***************************************************************************)
(* A model of the knowledge retrieval and answer-synthesis services of the *)
(* repository: the text normalizers, the similarity calculator, and the    *)
(* knowledge / question-answer stores with their fuzzy indexes.            *)
(*                                                                         *)
(* Strings are sequences of UTF-16 code units.  An ASCII code unit is the  *)
(* one-character string itself ("a", "?", " "); a Bengali code unit is     *)
(* named after its Unicode name ("b_ka" is BENGALI LETTER KA, "s_i" is     *)
(* BENGALI VOWEL SIGN I, "o_danda" is the danda U+0964), so the length of  *)
(* a modelled string is the JavaScript length of the string it models.     *)
(***************************************************************************)
EXTENDS Integers, Sequences, FiniteSets, TLC

VARIABLES
  \* ---- normalizer harness (pure functions of the three services)
  nFn,        \* the normalizer under test
  nIn,        \* its input text
  nOut,       \* the successive results: <<f(x)>>, then <<f(x), f(f(x))>>
  \* ---- similarity harness (SimilarityCalculator)
  simQuery, simText, simCorpus, simResult,
  \* ---- intent harness (analyzeQuestionIntent)
  intentQuestion,   \* the question analysed
  intentResult,     \* <<>>, then <<the QuestionIntent returned>>
  \* ---- AIServiceClass
  knowledgeBase,          \* this.knowledgeBase, in insertion order
  questionAnswerPairs,    \* this.questionAnswerPairs, in insertion order
  fuseInstance,           \* this.fuseInstance: the index and what it was built over
  qaPairsFuse,            \* this.qaPairsFuse
  storedKnowledge,        \* localStorage['ai-knowledge-base']
  storedQuestionAnswers,  \* localStorage['ai-question-answers']
  now,                    \* Date.now()
  aiLast,                 \* the last operation and what it returned
  \* ---- EnhancedAIServiceClass
  enhancedKnowledgeBase,    \* this.knowledgeBase
  enhancedFuseInstance,     \* this.fuseInstance
  conversationContext,      \* this.conversationContext
  enhancedStoredKnowledge,  \* localStorage['ai-knowledge-base']
  storedContext,            \* localStorage['ai-conversation-context'], <<>> if unset
  enhancedLast,             \* the last operation and what it returned
  \* ---- harness of the remaining pure functions
  callName,     \* the function called
  callArgs,     \* its arguments
  callResult,   \* <<>>, then <<what it returned>>
  \* ---- AIServiceClass of services/AIService.ts (the conversation log)
  chatContext,  \* this.conversationContext
  chatStored,   \* localStorage['conversation-context'], <<>> if unset
  chatLast,     \* the last operation and what it returned
  \* ---- VoiceMessage component
  pressed,           \* the record button is held down
  isRecording,       \* the isRecording state
  audioBlob,         \* the audioBlob state: "null" or "blob"
  mediaRecorderRef,  \* mediaRecorderRef.current: 0 for null, else a recorder
  recorders,         \* the MediaRecorder objects created, each with its state
  pendingGrants      \* startRecording calls waiting for getUserMedia

normVars == <<nFn, nIn, nOut>>
simVars  == <<simQuery, simText, simCorpus, simResult>>
aiVars   == <<knowledgeBase, questionAnswerPairs, fuseInstance, qaPairsFuse,
              storedKnowledge, storedQuestionAnswers, now, aiLast>>
enhancedVars == <<enhancedKnowledgeBase, enhancedFuseInstance, conversationContext,
                  enhancedStoredKnowledge, storedContext, enhancedLast>>
intentVars == <<intentQuestion, intentResult>>
callVars == <<callName, callArgs, callResult>>
chatVars == <<chatContext, chatStored, chatLast>>
voiceVars == <<pressed, isRecording, audioBlob, mediaRecorderRef, recorders, pendingGrants>>
vars == <<normVars, simVars, aiVars, enhancedVars, intentVars, callVars, chatVars, voiceVars>>

\* what the steps of one part of the model leave alone
normFrame == <<simVars, aiVars, enhancedVars, intentVars, callVars, chatVars, voiceVars>>
simFrame  == <<normVars, aiVars, enhancedVars, intentVars, callVars, chatVars, voiceVars>>
aiFrame   == <<normVars, simVars, enhancedVars, intentVars, callVars, chatVars, voiceVars>>
enhancedFrame == <<normVars, simVars, aiVars, intentVars, callVars, chatVars, voiceVars>>
intentFrame == <<normVars, simVars, aiVars, enhancedVars, callVars, chatVars, voiceVars>>
callFrame == <<normVars, simVars, aiVars, enhancedVars, intentVars, chatVars, voiceVars>>
chatFrame == <<normVars, simVars, aiVars, enhancedVars, intentVars, callVars, voiceVars>>
voiceFrame == <<normVars, simVars, aiVars, enhancedVars, intentVars, callVars, chatVars>>

(***************************************************************************)
(* Bounds of the model                                                     *)
(***************************************************************************)
MaxPieces == 3      \* a normalizer input is made of at most this many pieces
MaxSimPieces == 3   \* a similarity input is made of at most this many pieces
MaxKnowledge == 2   \* the knowledge collection holds at most this many items
MaxQA == 2          \* the question-answer collection holds at most this many pairs
MaxClock == 1       \* the clock runs from 0 to this many milliseconds
MaxAsked == 2       \* the enhanced service is asked at most this many questions
MaxIntentPieces == 3  \* an analysed question is made of at most this many pieces

(***************************************************************************)
(* JavaScript string primitives                                            *)
(***************************************************************************)
\* \w of a RegExp without the u flag: [A-Za-z0-9_]
AsciiWordChars ==
  {"a","b","c","d","e","f","g","h","i","j","k","l","m","n","o","p","q","r",
   "s","t","u","v","w","x","y","z","A","B","Q","0","1","2","3","4","5","6",
   "7","8","9","_"}

\* \s of a RegExp, and what String.prototype.trim removes
WhiteSpaceChars == {" ", "\t", "\n"}

\* the character class [।,;:!?\-()] stripped by the normalizers
StrippedPunctuation == {"o_danda", ",", ";", ":", "!", "?", "-", "(", ")"}

IsWordChar(c) == c \in AsciiWordChars
IsWhite(c) == c \in WhiteSpaceChars

LowerChar(c) ==
  CASE c = "A" -> "a"
    [] c = "B" -> "b"
    [] c = "Q" -> "q"
    [] OTHER -> c

toLowerCase(s) == [i \in 1..Len(s) |-> LowerChar(s[i])]

RECURSIVE TrimStart(_)
TrimStart(s) ==
  IF s # <<>> /\ IsWhite(Head(s)) THEN TrimStart(Tail(s)) ELSE s

RECURSIVE TrimEnd(_)
TrimEnd(s) ==
  IF s # <<>> /\ IsWhite(s[Len(s)]) THEN TrimEnd(SubSeq(s, 1, Len(s) - 1)) ELSE s

trim(s) == TrimEnd(TrimStart(s))

\* s.replace(/[।,;:!?\-()]/g, ' ')
StripPunctuation(s) ==
  [i \in 1..Len(s) |-> IF s[i] \in StrippedPunctuation THEN " " ELSE s[i]]

\* s.replace(/\s+/g, ' '): every maximal run of white space becomes one space
RECURSIVE CollapseWhiteSpace(_)
CollapseWhiteSpace(s) ==
  IF s = <<>> THEN <<>>
  ELSE IF IsWhite(Head(s))
       THEN <<" ">> \o CollapseWhiteSpace(TrimStart(s))
       ELSE <<Head(s)>> \o CollapseWhiteSpace(Tail(s))

\* text.includes(w)
Includes(text, w) ==
  \E i \in 0..(Len(text) - Len(w)) : SubSeq(text, i + 1, i + Len(w)) = w

\* s.split(/\s+/): the pieces between maximal runs of white space; a string
\* that starts (ends) with white space yields a leading (trailing) empty piece
RECURSIVE SplitFrom(_, _)
SplitFrom(s, cur) ==
  IF s = <<>> THEN <<cur>>
  ELSE IF IsWhite(Head(s))
       THEN <<cur>> \o SplitFrom(TrimStart(s), <<>>)
       ELSE SplitFrom(Tail(s), Append(cur, Head(s)))

split(s) == SplitFrom(s, <<>>)

\* the elements of a sequence
Range(s) == { s[i] : i \in 1..Len(s) }

\* \b at the position before character p (1..Len+1): exactly one side is \w
BoundaryAt(text, p) ==
  LET left  == p > 1 /\ IsWordChar(text[p - 1])
      right == p <= Len(text) /\ IsWordChar(text[p])
  IN  left # right

\* whether /\b<syn>\b/ matches at position i of text
MatchAt(text, i, syn) ==
  /\ i + Len(syn) - 1 <= Len(text)
  /\ text[i] = syn[1]
  /\ BoundaryAt(text, i)
  /\ BoundaryAt(text, i + Len(syn))
  /\ SubSeq(text, i, i + Len(syn) - 1) = syn

RECURSIVE ReplaceFrom(_, _, _, _)
ReplaceFrom(text, i, syn, canon) ==
  IF i > Len(text) THEN <<>>
  ELSE IF MatchAt(text, i, syn)
       THEN canon \o ReplaceFrom(text, i + Len(syn), syn, canon)
       ELSE <<text[i]>> \o ReplaceFrom(text, i + 1, syn, canon)

\* text.replace(new RegExp(`\\b${syn}\\b`, 'g'), canon): the matches are
\* found on the text as it is before this replacement, left to right
replaceWord(text, syn, canon) ==
  IF \E i \in 1..Len(text) : MatchAt(text, i, syn)
  THEN ReplaceFrom(text, 1, syn, canon)
  ELSE text

\* synonyms.forEach(synonym => normalized = normalized.replace(...)).  A
\* synonym whose first code unit is not among those of the running text
\* (units) cannot match, so the text is scanned for the others only.  The
\* result is the text with the set of its code units.
RECURSIVE ApplySynonymList(_, _, _, _)
ApplySynonymList(text, units, canon, syns) ==
  IF syns = <<>> THEN [text |-> text, units |-> units]
  ELSE IF Head(Head(syns)) \notin units
  THEN ApplySynonymList(text, units, canon, Tail(syns))
  ELSE LET replaced == replaceWord(text, Head(syns), canon)
       IN  \* the test evaluates the running text before the next replacement
           IF Len(replaced) >= 0
           THEN ApplySynonymList(replaced,
                                 IF replaced = text THEN units ELSE Range(replaced),
                                 canon, Tail(syns))
           ELSE [text |-> replaced, units |-> units]

\* Object.entries(table).forEach(([key, synonyms]) => synonyms.forEach(...)):
\* the entries in declaration order, each rewriting the running text
RECURSIVE ApplySynonymTable(_, _, _)
ApplySynonymTable(text, units, table) ==
  IF table = <<>> THEN text
  ELSE LET replaced == ApplySynonymList(text, units, Head(table).key, Head(table).syns)
       IN  IF Len(replaced.text) >= 0
           THEN ApplySynonymTable(replaced.text, replaced.units, Tail(table))
           ELSE replaced.text

ApplySynonyms(text, table) == ApplySynonymTable(text, Range(text), table)

(***************************************************************************)
(* The synonym tables, in declaration order                                *)
(***************************************************************************)
bengaliSynonyms ==
  << [key |-> <<"b_ka", "s_i">>,
       syns |-> << <<"b_ka", "s_ii">>,
                   <<"b_ka", "s_e", "b_ma", "b_na">>,
                   <<"b_ka", "s_o", "b_na">> >>],
     [key |-> <<"b_ka", "s_ii">>,
       syns |-> << <<"b_ka", "s_i">>,
                   <<"b_ka", "s_e", "b_ma", "b_na">>,
                   <<"b_ka", "s_o", "b_na">> >>],
     [key |-> <<"b_ka", "s_e">>,
       syns |-> << <<"b_ka", "s_aa", "b_ra">>,
                   <<"b_ka", "s_aa", "b_ka", "s_e">>,
                   <<"b_ka", "s_aa", "b_ha", "s_aa", "b_ra">> >>],
     [key |-> <<"b_ka", "s_e", "b_na">>,
       syns |-> << <<"b_ka", "s_i", "b_sa", "s_e", "b_ra", " ", "b_ja", "b_na", "s_virama", "b_ya">>,
                   <<"b_ka", "s_o", "b_na", " ", "b_ka", "s_aa", "b_ra", "b_nna", "s_e">> >>],
     [key |-> <<"b_ka", "s_i", "b_bha", "s_aa", "b_ba", "s_e">>,
       syns |-> << <<"b_ka", "s_e", "b_ma", "b_na", "s_e">>,
                   <<"b_ka", "s_i", "b_ra", "s_uu", "b_pa", "s_e">>,
                   <<"b_ka", "s_o", "b_na", " ", "b_u", "b_pa", "s_aa", "b_ya", "s_nukta", "s_e">> >>],
     [key |-> <<"b_ka", "s_o", "b_tha", "s_aa", "b_ya", "s_nukta">>,
       syns |-> << <<"b_ka", "s_o", "b_na", " ", "b_ja", "s_aa", "b_ya", "s_nukta", "b_ga", "s_aa", "b_ya", "s_nukta">>,
                   <<"b_ka", "s_o", "b_na", " ", "b_sa", "s_virama", "b_tha", "s_aa", "b_na", "s_e">> >>],
     [key |-> <<"b_ka", "b_kha", "b_na">>,
       syns |-> << <<"b_ka", "s_o", "b_na", " ", "b_sa", "b_ma", "b_ya", "s_nukta">>,
                   <<"b_ka", "b_ta", " ", "b_sa", "b_ma", "b_ya", "s_nukta">> >>],
     [key |-> <<"b_ka", "b_ta">>,
       syns |-> << <<"b_ka", "b_ta", "b_tta", "s_aa">>,
                   <<"b_ka", "s_e", "b_ma", "b_na">> >>],
     [key |-> <<"b_ka", "s_o", "b_na">>,
       syns |-> << <<"b_ka", "s_o", "b_na", "b_tta", "s_aa">>,
                   <<"b_ka", "s_o", "b_na", "s_o">> >>],
     [key |-> <<"b_ha", "b_ya", "s_nukta">>,
       syns |-> << <<"b_ha", "b_o", "b_ya", "s_nukta", "s_aa">>,
                   <<"b_ha", "b_i", "b_ya", "s_nukta", "s_aa">>,
                   <<"b_ha", "b_la">> >>],
     [key |-> <<"b_ka", "b_ra", "s_e">>,
       syns |-> << <<"b_ka", "b_ra", "s_aa">>,
                   <<"b_ka", "b_ra", "s_i", "b_ya", "s_nukta", "s_aa">>,
                   <<"b_ka", "b_ra", "b_la">> >>],
     [key |-> <<"b_ba", "b_la", "s_e">>,
       syns |-> << <<"b_ba", "b_la", "s_aa">>,
                   <<"b_ba", "b_la", "s_i", "b_ya", "s_nukta", "s_aa">>,
                   <<"b_ba", "b_la", "b_la">> >>],
     [key |-> <<"b_da", "s_e", "b_ya", "s_nukta">>,
       syns |-> << <<"b_da", "s_e", "b_o", "b_ya", "s_nukta", "s_aa">>,
                   <<"b_da", "s_i", "b_ya", "s_nukta", "s_aa">>,
                   <<"b_da", "s_i", "b_la">> >>],
     [key |-> <<"b_na", "s_e", "b_ya", "s_nukta">>,
       syns |-> << <<"b_na", "s_e", "b_o", "b_ya", "s_nukta", "s_aa">>,
                   <<"b_na", "s_i", "b_ya", "s_nukta", "s_aa">>,
                   <<"b_na", "s_i", "b_la">> >>],
     [key |-> <<"b_aa", "b_cha", "s_e">>,
       syns |-> << <<"b_aa", "b_cha", "s_i", "b_la">>,
                   <<"b_tha", "s_aa", "b_ka", "s_e">>,
                   <<"b_ra", "b_ya", "s_nukta", "s_e", "b_cha", "s_e">> >>],
     [key |-> <<"b_cha", "s_i", "b_la">>,
       syns |-> << <<"b_cha", "s_i", "b_la", "s_o">>,
                   <<"b_cha", "s_aa", "b_i", "b_la">>,
                   <<"b_aa", "b_cha", "s_i", "b_la">> >>],
     [key |-> <<"b_ka", "s_e", "b_ma", "b_na">>,
       syns |-> << <<"b_ka", "s_i", "b_ra", "s_uu", "b_pa">>,
                   <<"b_ka", "s_i", " ", "b_a", "b_ba", "b_sa", "s_virama", "b_tha", "s_aa">>,
                   <<"b_ka", "s_e", "b_ma", "b_na", " ", "b_aa", "b_cha", "s_o">>,
                   <<"b_ka", "s_e", "b_ma", "b_na", " ", "b_aa", "b_cha", "s_e", "b_na">> >>],
     [key |-> <<"b_aa", "b_cha", "s_o">>,
       syns |-> << <<"b_aa", "b_cha", "s_e", "b_na">>,
                   <<"b_aa", "b_cha">>,
                   <<"b_tha", "s_aa", "b_ka", "s_o">> >>],
     [key |-> <<"b_bha", "s_aa", "b_la", "s_o">>,
       syns |-> << <<"b_bha", "s_aa", "b_la">>,
                   <<"b_sa", "s_u", "b_na", "s_virama", "b_da", "b_ra">>,
                   <<"b_ca", "b_ma", "b_khanda_ta", "b_ka", "s_aa", "b_ra">> >>],
     [key |-> <<"b_kha", "s_aa", "b_ra", "s_aa", "b_pa">>,
       syns |-> << <<"b_kha", "s_aa", "b_ra", "s_aa", "b_pa">>,
                   <<"b_ma", "b_na", "s_virama", "b_da">>,
                   <<"b_ba", "s_aa", "b_ja", "s_e">> >>] >>

comprehensiveBengaliSynonyms ==
  << [key |-> <<"b_ka", "s_i">>,
       syns |-> << <<"b_ka", "s_ii">>,
                   <<"b_ka", "s_e", "b_ma", "b_na">>,
                   <<"b_ka", "s_o", "b_na">>,
                   <<"b_ka", "s_i", "b_ra", "b_ka", "b_ma">>,
                   <<"b_ka", "s_i", "b_sa", "s_e", "b_ra">>,
                   <<"b_ka", "s_o", "b_na", "b_tta", "s_aa">>,
                   <<"b_ka", "s_i", "b_tta", "s_aa">>,
                   <<"b_ka", "s_i", "b_cha", "s_u">>,
                   <<"b_ka", "s_o", "b_na", " ", "b_ja", "s_i", "b_na", "s_i", "b_sa">> >>],
     [key |-> <<"b_ka", "s_ii">>,
       syns |-> << <<"b_ka", "s_i">>,
                   <<"b_ka", "s_e", "b_ma", "b_na">>,
                   <<"b_ka", "s_o", "b_na">>,
                   <<"b_ka", "s_i", "b_ra", "b_ka", "b_ma">>,
                   <<"b_ka", "s_i", "b_sa", "s_e", "b_ra">>,
                   <<"b_ka", "s_o", "b_na", "b_tta", "s_aa">>,
                   <<"b_ka", "s_i", "b_tta", "s_aa">>,
                   <<"b_ka", "s_i", "b_cha", "s_u">>,
                   <<"b_ka", "s_o", "b_na", " ", "b_ja", "s_i", "b_na", "s_i", "b_sa">> >>],
     [key |-> <<"b_ka", "s_e">>,
       syns |-> << <<"b_ka", "s_aa", "b_ra">>,
                   <<"b_ka", "s_aa", "b_ka", "s_e">>,
                   <<"b_ka", "s_aa", "b_ha", "s_aa", "b_ra">>,
                   <<"b_ka", "s_o", "b_na", " ", "b_ba", "s_virama", "b_ya", "b_ka", "s_virama", "b_ta", "s_i">>,
                   <<"b_ka", "s_o", "b_na", " ", "b_la", "s_o", "b_ka">>,
                   <<"b_ka", "s_o", "b_na", " ", "b_ma", "s_aa", "b_na", "s_u", "b_ssa">>,
                   <<"b_ka", "s_aa", "b_ha", "s_aa", "b_ka", "s_e">> >>],
     [key |-> <<"b_ka", "s_e", "b_na">>,
       syns |-> << <<"b_ka", "s_i", "b_sa", "s_e", "b_ra", " ", "b_ja", "b_na", "s_virama", "b_ya">>,
                   <<"b_ka", "s_o", "b_na", " ", "b_ka", "s_aa", "b_ra", "b_nna", "s_e">>,
                   <<"b_ka", "s_i", " ", "b_ka", "s_aa", "b_ra", "b_nna", "s_e">>,
                   <<"b_ka", "s_i", "b_ja", "b_na", "s_virama", "b_ya">>,
                   <<"b_ka", "s_i", " ", "b_da", "b_ra", "b_ka", "s_aa", "b_ra", "s_e">>,
                   <<"b_ka", "s_e", "b_na", "s_o">> >>],
     [key |-> <<"b_ka", "s_i", "b_bha", "s_aa", "b_ba", "s_e">>,
       syns |-> << <<"b_ka", "s_e", "b_ma", "b_na", "s_e">>,
                   <<"b_ka", "s_i", "b_ra", "s_uu", "b_pa", "s_e">>,
                   <<"b_ka", "s_o", "b_na", " ", "b_u", "b_pa", "s_aa", "b_ya", "s_nukta", "s_e">>,
                   <<"b_ka", "s_o", "b_na", " ", "b_pa", "b_da", "s_virama", "b_dha", "b_ta", "s_i", "b_ta", "s_e">>,
                   <<"b_ka", "s_i", " ", "b_pa", "b_da", "s_virama", "b_dha", "b_ta", "s_i", "b_ta", "s_e">>,
                   <<"b_ka", "s_e", "b_ma", "b_na", " ", "b_ka", "b_ra", "s_e">> >>],
     [key |-> <<"b_ka", "s_o", "b_tha", "s_aa", "b_ya", "s_nukta">>,
       syns |-> << <<"b_ka", "s_o", "b_na", " ", "b_ja", "s_aa", "b_ya", "s_nukta", "b_ga", "s_aa", "b_ya", "s_nukta">>,
                   <<"b_ka", "s_o", "b_na", " ", "b_sa", "s_virama", "b_tha", "s_aa", "b_na", "s_e">>,
                   <<"b_ka", "s_o", "b_tha", "s_aa", "b_ka", "s_aa", "b_ra">>,
                   <<"b_ka", "s_o", "b_na", " ", "b_e", "b_la", "s_aa", "b_ka", "s_aa", "b_ya", "s_nukta">>,
                   <<"b_ka", "s_o", "b_tha", "s_aa", "b_ta", "s_e">>,
                   <<"b_ka", "s_o", "b_na", " ", "b_da", "s_e", "b_sha", "s_e">> >>],
     [key |-> <<"b_ka", "b_kha", "b_na">>,
       syns |-> << <<"b_ka", "s_o", "b_na", " ", "b_sa", "b_ma", "b_ya", "s_nukta">>,
                   <<"b_ka", "b_ta", " ", "b_sa", "b_ma", "b_ya", "s_nukta">>,
                   <<"b_ka", "s_o", "b_na", " ", "b_ka", "s_aa", "b_la", "s_e">>,
                   <<"b_ka", "s_o", "b_na", " ", "b_ta", "s_aa", "b_ra", "s_i", "b_kha", "s_e">>,
                   <<"b_ka", "s_o", "b_na", " ", "b_da", "s_i", "b_na">>,
                   <<"b_ka", "b_ba", "s_e">> >>],
     [key |-> <<"b_ka", "b_ta">>,
       syns |-> << <<"b_ka", "b_ta", "b_tta", "s_aa">>,
                   <<"b_ka", "s_e", "b_ma", "b_na">>,
                   <<"b_ka", "s_i", " ", "b_pa", "b_ra", "s_i", "b_ma", "s_aa", "b_nna">>,
                   <<"b_ka", "b_ta", " ", "b_sa", "s_anusvara", "b_kha", "s_virama", "b_ya", "b_ka">>,
                   <<"b_ka", "b_ya", "s_nukta", "b_tta", "s_aa">>,
                   <<"b_ka", "b_ta", "b_ga", "s_u", "b_la", "s_o">> >>],
     [key |-> <<"b_ja", "b_na", "s_virama", "b_ma", "b_ga", "s_virama", "b_ra", "b_ha", "b_nna">>,
       syns |-> << <<"b_ja", "b_na", "s_virama", "b_ma", " ", "b_na", "s_e", "b_o", "b_ya", "s_nukta", "s_aa">>,
                   <<"b_ja", "b_na", "s_virama", "b_ma", "s_aa", "b_ya", "s_nukta">>,
                   <<"b_ja", "b_na", "s_virama", "b_ma", "s_e", "b_cha", "s_i", "b_la", "s_e", "b_na">>,
                   <<"b_bha", "s_uu", "b_ma", "s_i", "b_ssa", "s_virama", "b_ttha">>,
                   <<"b_ja", "b_na", "s_virama", "b_ma", " ", "b_ha", "b_ya", "s_nukta">>,
                   <<"b_ja", "b_na", "s_virama", "b_ma", " ", "b_ha", "b_ya", "s_nukta", "s_e", "b_cha", "s_i", "b_la">>,
                   <<"b_ja", "b_na", "s_virama", "b_ma", " ", "b_ha", "b_ya", "s_nukta", "s_e", "b_cha", "s_e">> >>],
     [key |-> <<"b_ja", "b_na", "s_virama", "b_ma">>,
       syns |-> << <<"b_ja", "b_na", "s_virama", "b_ma", "b_ga", "s_virama", "b_ra", "b_ha", "b_nna">>,
                   <<"b_ja", "b_na", "s_virama", "b_ma", " ", "b_na", "s_e", "b_o", "b_ya", "s_nukta", "s_aa">>,
                   <<"b_ja", "b_na", "s_virama", "b_ma", "s_aa", "b_ya", "s_nukta">>,
                   <<"b_ja", "b_na", "s_virama", "b_ma", "s_e", "b_cha", "s_i", "b_la", "s_e", "b_na">>,
                   <<"b_bha", "s_uu", "b_ma", "s_i", "b_ssa", "s_virama", "b_ttha">>,
                   <<"b_ja", "b_na", "s_virama", "b_ma", " ", "b_ha", "b_ya", "s_nukta">>,
                   <<"b_ja", "b_na", "s_virama", "b_ma", " ", "b_ha", "b_ya", "s_nukta", "s_e", "b_cha", "s_i", "b_la">> >>],
     [key |-> <<"b_ja", "b_na", "s_virama", "b_ma", "b_sa", "s_virama", "b_tha", "s_aa", "b_na">>,
       syns |-> << <<"b_ja", "b_na", "s_virama", "b_ma", "s_e", "b_ra", " ", "b_ja", "s_aa", "b_ya", "s_nukta", "b_ga", "s_aa">>,
                   <<"b_ja", "b_na", "s_virama", "b_ma", "s_e", "b_ra", " ", "b_sa", "s_virama", "b_tha", "s_aa", "b_na">>,
                   <<"b_ja", "b_na", "s_virama", "b_ma", "b_bha", "s_uu", "b_ma", "s_i">>,
                   <<"b_ja", "b_na", "s_virama", "b_ma", " ", "b_ha", "b_ya", "s_nukta", "s_e", "b_cha", "s_e", " ", "b_ka", "s_o", "b_tha", "s_aa", "b_ya", "s_nukta">>,
                   <<"b_ka", "s_o", "b_tha", "s_aa", "b_ya", "s_nukta", " ", "b_ja", "b_na", "s_virama", "b_ma">> >>],
     [key |-> <<"b_ma", "s_vocalic_r", "b_ta", "s_virama", "b_ya", "s_u", "b_ba", "b_ra", "b_nna">>,
       syns |-> << <<"b_ma", "s_aa", "b_ra", "s_aa", " ", "b_ya", "s_aa", "b_o", "b_ya", "s_nukta", "s_aa">>,
                   <<"b_ma", "s_vocalic_r", "b_ta", "s_virama", "b_ya", "s_u">>,
                   <<"b_ma", "b_ra", "s_e", " ", "b_ya", "s_aa", "b_na">>,
                   <<"b_i", "b_na", "s_virama", "b_ta", "s_e", "b_ka", "s_aa", "b_la">>,
                   <<"b_pa", "b_ra", "b_la", "s_o", "b_ka", "b_ga", "b_ma", "b_na">>,
                   <<"b_ma", "s_vocalic_r", "b_ta", "s_virama", "b_ya", "s_u", " ", "b_ha", "b_ya", "s_nukta">>,
                   <<"b_ma", "s_aa", "b_ra", "s_aa", " ", "b_ga", "s_e", "b_cha", "s_e", "b_na">> >>],
     [key |-> <<"b_ma", "s_vocalic_r", "b_ta", "s_virama", "b_ya", "s_u">>,
       syns |-> << <<"b_ma", "s_aa", "b_ra", "s_aa", " ", "b_ya", "s_aa", "b_o", "b_ya", "s_nukta", "s_aa">>,
                   <<"b_ma", "s_vocalic_r", "b_ta", "s_virama", "b_ya", "s_u", "b_ba", "b_ra", "b_nna">>,
                   <<"b_ma", "b_ra", "s_e", " ", "b_ya", "s_aa", "b_na">>,
                   <<"b_i", "b_na", "s_virama", "b_ta", "s_e", "b_ka", "s_aa", "b_la">>,
                   <<"b_pa", "b_ra", "b_la", "s_o", "b_ka", "b_ga", "b_ma", "b_na">>,
                   <<"b_ma", "s_vocalic_r", "b_ta", "s_virama", "b_ya", "s_u", " ", "b_ha", "b_ya", "s_nukta">> >>],
     [key |-> <<"b_ma", "s_aa", "b_ra", "s_aa">>,
       syns |-> << <<"b_ma", "s_vocalic_r", "b_ta", "s_virama", "b_ya", "s_u", "b_ba", "b_ra", "b_nna">>,
                   <<"b_ma", "s_vocalic_r", "b_ta", "s_virama", "b_ya", "s_u">>,
                   <<"b_ma", "b_ra", "s_e", " ", "b_ya", "s_aa", "b_na">>,
                   <<"b_i", "b_na", "s_virama", "b_ta", "s_e", "b_ka", "s_aa", "b_la">>,
                   <<"b_pa", "b_ra", "b_la", "s_o", "b_ka", "b_ga", "b_ma", "b_na">>,
                   <<"b_ma", "s_vocalic_r", "b_ta", "s_virama", "b_ya", "s_u", " ", "b_ha", "b_ya", "s_nukta">> >>],
     [key |-> <<"b_ba", "s_aa", "b_ba", "s_aa">>,
       syns |-> << <<"b_pa", "s_i", "b_ta", "s_aa">>,
                   <<"b_pa", "s_i", "b_ta", "s_aa", "b_ra">>,
                   <<"b_ba", "s_aa", "b_ba", "s_aa", "b_ra">>,
                   <<"b_ja", "b_na", "b_ka">>,
                   <<"b_aa", "b_ba", "s_virama", "b_ba", "s_aa">>,
                   <<"b_ba", "s_aa", "b_ba", "s_aa", "b_ja", "s_i">>,
                   <<"b_aa", "b_ba", "s_virama", "b_ba", "s_aa", "b_ja", "s_aa", "b_na">> >>],
     [key |-> <<"b_ma", "s_aa">>,
       syns |-> << <<"b_ma", "s_aa", "b_ta", "s_aa">>,
                   <<"b_ma", "s_aa", "b_ya", "s_nukta", "s_e", "b_ra">>,
                   <<"b_ma", "s_aa", "b_ta", "s_aa", "b_ra">>,
                   <<"b_ja", "b_na", "b_na", "s_ii">>,
                   <<"b_aa", "b_ma", "s_virama", "b_ma", "s_aa">>,
                   <<"b_ma", "s_aa", "b_ya", "s_nukta", "s_e">>,
                   <<"b_aa", "b_ma", "s_virama", "b_ma", "s_aa", "b_ja", "s_aa", "b_na">> >>],
     [key |-> <<"b_sa", "s_virama", "b_ta", "s_virama", "b_ra", "s_ii">>,
       syns |-> << <<"b_ba", "b_u">>,
                   <<"b_ba", "s_i", "b_ba", "s_i">>,
                   <<"b_ba", "s_e", "b_ga", "b_ma">>,
                   <<"b_pa", "b_ta", "s_virama", "b_na", "s_ii">>,
                   <<"b_ga", "s_vocalic_r", "b_ha", "s_i", "b_nna", "s_ii">>,
                   <<"b_ba", "s_i", "b_ba", "s_aa", "b_ha", "s_i", "b_ta", "s_aa">>,
                   <<"b_ba", "s_i", "b_ya", "s_nukta", "s_e", "b_ra", " ", "b_sa", "s_virama", "b_ta", "s_virama", "b_ra", "s_ii">> >>],
     [key |-> <<"b_sa", "s_virama", "b_ba", "s_aa", "b_ma", "s_ii">>,
       syns |-> << <<"b_pa", "b_ta", "s_i">>,
                   <<"b_ba", "b_ra">>,
                   <<"b_bha", "b_ra", "s_virama", "b_ta", "s_aa">>,
                   <<"b_sa", "s_virama", "b_ba", "s_aa", "b_ma", "s_ii">>,
                   <<"b_ba", "s_i", "b_ya", "s_nukta", "s_e", "b_ra", " ", "b_sa", "s_virama", "b_ba", "s_aa", "b_ma", "s_ii">> >>],
     [key |-> <<"b_pa", "s_u", "b_ta", "s_virama", "b_ra">>,
       syns |-> << <<"b_cha", "s_e", "b_la", "s_e">>,
                   <<"b_ba", "s_e", "b_tta", "s_aa">>,
                   <<"b_sa", "b_na", "s_virama", "b_ta", "s_aa", "b_na">>,
                   <<"b_sa", "b_pa", "s_u", "b_ta">>,
                   <<"b_ta", "b_na", "b_ya", "s_nukta">> >>],
     [key |-> <<"b_ka", "b_na", "s_virama", "b_ya", "s_aa">>,
       syns |-> << <<"b_ma", "s_e", "b_ya", "s_nukta", "s_e">>,
                   <<"b_ba", "s_e", "b_tta", "s_i">>,
                   <<"b_sa", "b_na", "s_virama", "b_ta", "s_aa", "b_na">>,
                   <<"b_ka", "b_na", "s_virama", "b_ya", "s_aa", " ", "b_sa", "b_na", "s_virama", "b_ta", "s_aa", "b_na">>,
                   <<"b_ta", "b_na", "b_ya", "s_nukta", "s_aa">> >>],
     [key |-> <<"b_ga", "s_virama", "b_ra", "s_aa", "b_ma">>,
       syns |-> << <<"b_pa", "b_la", "s_virama", "b_la", "s_ii">>,
                   <<"b_ga", "s_virama", "b_ra", "s_aa", "b_ma", "s_virama", "b_ya">>,
                   <<"b_pa", "s_aa", "b_dda", "s_nukta", "s_aa">>,
                   <<"b_ma", "s_au", "b_ja", "s_aa">>,
                   <<"b_ga", "b_nya", "s_virama", "b_ja">> >>],
     [key |-> <<"b_sha", "b_ha", "b_ra">>,
       syns |-> << <<"b_na", "b_ga", "b_ra">>,
                   <<"b_na", "b_ga", "b_ra", "s_ii">>,
                   <<"b_pa", "s_u", "b_ra">>,
                   <<"b_ma", "b_ha", "s_aa", "b_na", "b_ga", "b_ra">>,
                   <<"b_pa", "s_au", "b_ra">> >>],
     [key |-> <<"b_ja", "s_e", "b_la", "s_aa">>,
       syns |-> << <<"b_ja", "s_i", "b_la", "s_aa">>,
                   <<"b_ja", "s_e", "b_la", "s_aa", "b_ra">>,
                   <<"b_dda", "s_i", "b_sa", "s_virama", "b_tta", "s_virama", "b_ra", "s_i", "b_ka", "s_virama", "b_tta">> >>],
     [key |-> <<"b_ba", "s_i", "b_bha", "s_aa", "b_ga">>,
       syns |-> << <<"b_dda", "s_i", "b_bha", "s_i", "b_sha", "b_na">>,
                   <<"b_a", "b_nya", "s_virama", "b_ca", "b_la">>,
                   <<"b_e", "b_la", "s_aa", "b_ka", "s_aa">> >>],
     [key |-> <<"b_bha", "s_aa", "b_la", "s_o">>,
       syns |-> << <<"b_ca", "b_ma", "b_khanda_ta", "b_ka", "s_aa", "b_ra">>,
                   <<"b_sa", "s_u", "b_na", "s_virama", "b_da", "b_ra">>,
                   <<"b_da", "s_aa", "b_ra", "s_u", "b_nna">>,
                   <<"b_a", "b_sa", "s_aa", "b_dha", "s_aa", "b_ra", "b_nna">>,
                   <<"b_u", "b_ta", "s_virama", "b_ta", "b_ma">>,
                   <<"b_ca", "b_ma", "b_khanda_ta", "b_ka", "s_aa", "b_ra">>,
                   <<"b_ba", "s_e", "b_sha">> >>],
     [key |-> <<"b_kha", "s_aa", "b_ra", "s_aa", "b_pa">>,
       syns |-> << <<"b_ba", "s_aa", "b_ja", "s_e">>,
                   <<"b_na", "s_i", "b_ma", "s_virama", "b_na", "b_ma", "s_aa", "b_na", "s_e", "b_ra">>,
                   <<"b_da", "s_u", "b_ra", "s_virama", "b_ba", "b_la">>,
                   <<"b_a", "b_sa", "s_u", "b_na", "s_virama", "b_da", "b_ra">>,
                   <<"b_na", "s_i", "b_ma", "s_virama", "b_na">>,
                   <<"b_ma", "b_na", "s_virama", "b_da">> >>],
     [key |-> <<"b_ba", "b_la", "s_e", "b_na">>,
       syns |-> << <<"b_ba", "b_la", "s_u", "b_na">>,
                   <<"b_ba", "b_la", "s_o">>,
                   <<"b_ba", "b_la">>,
                   <<"b_ja", "s_aa", "b_na", "s_aa", "b_na">>,
                   <<"b_ba", "b_ra", "s_virama", "b_nna", "b_na", "s_aa", " ", "b_ka", "b_ra", "s_u", "b_na">> >>],
     [key |-> <<"b_ja", "s_aa", "b_na", "b_ta", "s_e">>,
       syns |-> << <<"b_ba", "s_u", "b_jha", "b_ta", "s_e">>,
                   <<"b_sha", "s_i", "b_kha", "b_ta", "s_e">>,
                   <<"b_ja", "s_aa", "b_na", "s_aa", "b_ra", " ", "b_ja", "b_na", "s_virama", "b_ya">>,
                   <<"b_ba", "s_o", "b_jha", "s_aa", "b_ra", " ", "b_ja", "b_na", "s_virama", "b_ya">> >>],
     [key |-> <<"b_ca", "s_aa", "b_i">>,
       syns |-> << <<"b_ca", "s_aa", "b_i", "b_ta", "s_e", "b_cha", "s_i">>,
                   <<"b_pa", "s_virama", "b_ra", "b_ya", "s_nukta", "s_o", "b_ja", "b_na">>,
                   <<"b_da", "b_ra", "b_ka", "s_aa", "b_ra">>,
                   <<"b_i", "b_ca", "s_virama", "b_cha", "s_aa">>,
                   <<"b_aa", "b_ga", "s_virama", "b_ra", "b_ha">> >>],
     [key |-> <<"b_sa", "b_ma", "s_virama", "b_pa", "b_ra", "s_virama", "b_ka", "s_e">>,
       syns |-> << <<"b_ba", "s_i", "b_ssa", "b_ya", "s_nukta", "s_e">>,
                   <<"b_na", "s_i", "b_ya", "s_nukta", "s_e">>,
                   <<"b_ba", "s_virama", "b_ya", "s_aa", "b_pa", "s_aa", "b_ra", "s_e">>,
                   <<"b_sa", "b_na", "s_virama", "b_da", "b_ra", "s_virama", "b_bha", "s_e">> >>],
     [key |-> <<"b_sa", "s_aa", "b_tha", "s_e">>,
       syns |-> << <<"b_sa", "b_nga", "s_virama", "b_ga", "s_e">>,
                   <<"b_sa", "b_ha">>,
                   <<"b_sa", "b_ha", "s_i", "b_ta">>,
                   <<"b_e", "b_ka", "b_sa", "s_aa", "b_tha", "s_e">> >>],
     [key |-> <<"b_tha", "s_e", "b_ka", "s_e">>,
       syns |-> << <<"b_ha", "b_ta", "s_e">>,
                   <<"b_ha", "b_i", "b_ta", "s_e">>,
                   <<"b_ha", "b_ya", "s_nukta", "s_e">> >>] >>

enhancedBengaliSynonyms ==
  << [key |-> <<"b_ka", "s_i">>,
       syns |-> << <<"b_ka", "s_ii">>,
                   <<"b_ka", "s_e", "b_ma", "b_na">>,
                   <<"b_ka", "s_o", "b_na">>,
                   <<"b_ka", "s_i", "b_ra", "b_ka", "b_ma">> >>],
     [key |-> <<"b_ka", "s_ii">>,
       syns |-> << <<"b_ka", "s_i">>,
                   <<"b_ka", "s_e", "b_ma", "b_na">>,
                   <<"b_ka", "s_o", "b_na">>,
                   <<"b_ka", "s_i", "b_ra", "b_ka", "b_ma">> >>],
     [key |-> <<"b_ka", "s_e">>,
       syns |-> << <<"b_ka", "s_aa", "b_ra">>,
                   <<"b_ka", "s_aa", "b_ka", "s_e">>,
                   <<"b_ka", "s_aa", "b_ha", "s_aa", "b_ra">>,
                   <<"b_ka", "s_o", "b_na", " ", "b_ba", "s_virama", "b_ya", "b_ka", "s_virama", "b_ta", "s_i">> >>],
     [key |-> <<"b_ka", "s_e", "b_na">>,
       syns |-> << <<"b_ka", "s_i", "b_sa", "s_e", "b_ra", " ", "b_ja", "b_na", "s_virama", "b_ya">>,
                   <<"b_ka", "s_o", "b_na", " ", "b_ka", "s_aa", "b_ra", "b_nna", "s_e">>,
                   <<"b_ka", "s_i", " ", "b_ka", "s_aa", "b_ra", "b_nna", "s_e">> >>],
     [key |-> <<"b_ka", "s_i", "b_bha", "s_aa", "b_ba", "s_e">>,
       syns |-> << <<"b_ka", "s_e", "b_ma", "b_na", "s_e">>,
                   <<"b_ka", "s_i", "b_ra", "s_uu", "b_pa", "s_e">>,
                   <<"b_ka", "s_o", "b_na", " ", "b_u", "b_pa", "s_aa", "b_ya", "s_nukta", "s_e">>,
                   <<"b_ka", "s_o", "b_na", " ", "b_pa", "b_da", "s_virama", "b_dha", "b_ta", "s_i", "b_ta", "s_e">> >>],
     [key |-> <<"b_ka", "s_o", "b_tha", "s_aa", "b_ya", "s_nukta">>,
       syns |-> << <<"b_ka", "s_o", "b_na", " ", "b_ja", "s_aa", "b_ya", "s_nukta", "b_ga", "s_aa", "b_ya", "s_nukta">>,
                   <<"b_ka", "s_o", "b_na", " ", "b_sa", "s_virama", "b_tha", "s_aa", "b_na", "s_e">>,
                   <<"b_ka", "s_o", "b_tha", "s_aa", "b_ka", "s_aa", "b_ra">> >>],
     [key |-> <<"b_ka", "b_kha", "b_na">>,
       syns |-> << <<"b_ka", "s_o", "b_na", " ", "b_sa", "b_ma", "b_ya", "s_nukta">>,
                   <<"b_ka", "b_ta", " ", "b_sa", "b_ma", "b_ya", "s_nukta">>,
                   <<"b_ka", "s_o", "b_na", " ", "b_ka", "s_aa", "b_la", "s_e">> >>],
     [key |-> <<"b_ka", "b_ta">>,
       syns |-> << <<"b_ka", "b_ta", "b_tta", "s_aa">>,
                   <<"b_ka", "s_e", "b_ma", "b_na">>,
                   <<"b_ka", "s_i", " ", "b_pa", "b_ra", "s_i", "b_ma", "s_aa", "b_nna">> >>],
     [key |-> <<"b_ja", "b_na", "s_virama", "b_ma", "b_ga", "s_virama", "b_ra", "b_ha", "b_nna">>,
       syns |-> << <<"b_ja", "b_na", "s_virama", "b_ma", " ", "b_na", "s_e", "b_o", "b_ya", "s_nukta", "s_aa">>,
                   <<"b_ja", "b_na", "s_virama", "b_ma", "s_aa", "b_ya", "s_nukta">>,
                   <<"b_ja", "b_na", "s_virama", "b_ma", "s_e", "b_cha", "s_i", "b_la", "s_e", "b_na">>,
                   <<"b_bha", "s_uu", "b_ma", "s_i", "b_ssa", "s_virama", "b_ttha">> >>],
     [key |-> <<"b_ma", "s_vocalic_r", "b_ta", "s_virama", "b_ya", "s_u", "b_ba", "b_ra", "b_nna">>,
       syns |-> << <<"b_ma", "s_aa", "b_ra", "s_aa", " ", "b_ya", "s_aa", "b_o", "b_ya", "s_nukta", "s_aa">>,
                   <<"b_ma", "s_vocalic_r", "b_ta", "s_virama", "b_ya", "s_u">>,
                   <<"b_ma", "b_ra", "s_e", " ", "b_ya", "s_aa", "b_na">>,
                   <<"b_i", "b_na", "s_virama", "b_ta", "s_e", "b_ka", "s_aa", "b_la">>,
                   <<"b_pa", "b_ra", "b_la", "s_o", "b_ka", "b_ga", "b_ma", "b_na">> >>],
     [key |-> <<"b_ba", "s_aa", "b_ba", "s_aa">>,
       syns |-> << <<"b_pa", "s_i", "b_ta", "s_aa">>,
                   <<"b_pa", "s_i", "b_ta", "s_aa", "b_ra">>,
                   <<"b_ba", "s_aa", "b_ba", "s_aa", "b_ra">>,
                   <<"b_ja", "b_na", "b_ka">> >>],
     [key |-> <<"b_ma", "s_aa">>,
       syns |-> << <<"b_ma", "s_aa", "b_ta", "s_aa">>,
                   <<"b_ma", "s_aa", "b_ya", "s_nukta", "s_e", "b_ra">>,
                   <<"b_ma", "s_aa", "b_ta", "s_aa", "b_ra">>,
                   <<"b_ja", "b_na", "b_na", "s_ii">> >>],
     [key |-> <<"b_bha", "s_aa", "b_la", "s_o">>,
       syns |-> << <<"b_ca", "b_ma", "b_khanda_ta", "b_ka", "s_aa", "b_ra">>,
                   <<"b_sa", "s_u", "b_na", "s_virama", "b_da", "b_ra">>,
                   <<"b_da", "s_aa", "b_ra", "s_u", "b_nna">>,
                   <<"b_a", "b_sa", "s_aa", "b_dha", "s_aa", "b_ra", "b_nna">> >>],
     [key |-> <<"b_kha", "s_aa", "b_ra", "s_aa", "b_pa">>,
       syns |-> << <<"b_ba", "s_aa", "b_ja", "s_e">>,
                   <<"b_kha", "s_aa", "b_ra", "s_aa", "b_pa">>,
                   <<"b_na", "s_i", "b_ma", "s_virama", "b_na", "b_ma", "s_aa", "b_na", "s_e", "b_ra">>,
                   <<"b_da", "s_u", "b_ra", "s_virama", "b_ba", "b_la">> >>] >>

(***************************************************************************)
(* The normalizers                                                         *)
(***************************************************************************)
\* AIServiceClass.normalizeText (knowledge + question-answer service)
normalizeText(text) ==
  ApplySynonyms(trim(toLowerCase(text)), bengaliSynonyms)

\* EnhancedAIServiceClass.normalizeText
enhancedNormalizeText(text) ==
  ApplySynonyms(trim(toLowerCase(text)), enhancedBengaliSynonyms)

\* EnhancedAIServiceClass.advancedNormalizeText: trim comes first, the
\* punctuation is replaced by spaces afterwards; escapeRegExp makes the
\* synonym a literal, which a Bengali word with spaces already is
advancedNormalizeText(text) ==
  LET lowered   == trim(toLowerCase(text))
      stripped  == StripPunctuation(lowered)
      collapsed == CollapseWhiteSpace(stripped)
  IN  ApplySynonyms(collapsed, comprehensiveBengaliSynonyms)

\* AIServiceClass.normalizeQuestion (conversation service)
normalizeQuestion(question) ==
  CollapseWhiteSpace(StripPunctuation(trim(toLowerCase(question))))

(***************************************************************************)
(* SimilarityCalculator.  A similarity is kept in thousandths: the value   *)
(* v of the code is modelled by floor(1000 * v), computed exactly.         *)
(***************************************************************************)
Scale == 1000

Min2(a, b) == IF a <= b THEN a ELSE b
Max2(a, b) == IF a >= b THEN a ELSE b

RECURSIVE SumSeq(_)
SumSeq(s) == IF s = <<>> THEN 0 ELSE Head(s) + SumSeq(Tail(s))

RECURSIVE SumOver(_, _)
SumOver(S, f) ==
  IF S = {} THEN 0
  ELSE LET x == CHOOSE y \in S : TRUE IN f[x] + SumOver(S \ {x}, f)

\* words.filter(w => w === word).length
CountOf(words, word) == Cardinality({ i \in 1..Len(words) : words[i] = word })

\* floor(sqrt(n)), by bisection on lo..hi
RECURSIVE ISqrtIn(_, _, _)
ISqrtIn(n, lo, hi) ==
  IF lo >= hi THEN lo
  ELSE LET mid == (lo + hi + 1) \div 2
       IN  IF mid * mid <= n THEN ISqrtIn(n, mid, hi) ELSE ISqrtIn(n, lo, mid - 1)

ISqrt(n) == ISqrtIn(n, 0, Min2(n, Scale))

\* round(1000 * ln k) for k = 1..8
LnMilliTable == <<0, 693, 1099, 1386, 1609, 1792, 1946, 2079>>

\* 1000 * Math.log(num / den) for 1 <= num, den <= 8
LnMilli(num, den) == LnMilliTable[num] - LnMilliTable[den]

\* Math.sqrt(n1) * Math.sqrt(n2) in IEEE-754 doubles, against the exact root
\* r of n1 * n2 when that is an integer: the product is below r for the
\* pairs of SqrtProductBelow, above r for those of SqrtProductAbove
\* (n1, n2 <= 20), and r / product is then one unit in the last place above,
\* respectively below, 1.
SqrtProductBelow ==
  { <<3, 3>>, <<3, 12>>, <<6, 6>>, <<12, 3>>, <<12, 12>>, <<13, 13>>, <<18, 18>> }
SqrtProductAbove ==
  { <<2, 2>>, <<2, 8>>, <<5, 5>>, <<5, 20>>, <<7, 7>>, <<8, 2>>, <<8, 8>>,
    <<10, 10>>, <<15, 15>>, <<19, 19>>, <<20, 5>>, <<20, 20>> }

\* calculateTFIDF, in thousandths: sum over the query words of tf * idf with
\* tf = count / docWords.length and idf = Math.log(totalDocs / (docsWithTerm + 1))
calculateTFIDF(text, document, corpus) ==
  LET words     == split(toLowerCase(text))
      docWords  == split(toLowerCase(document))
      totalDocs == Len(corpus)
      docsWithTerm(word) ==
        Cardinality({ d \in 1..Len(corpus) : Includes(toLowerCase(corpus[d]), word) })
      term(word) == CountOf(docWords, word) * LnMilli(totalDocs, docsWithTerm(word) + 1)
  IN  SumSeq([i \in 1..Len(words) |-> term(words[i])]) \div Len(docWords)

\* cosineSimilarity: [milli |-> floor(1000 * dot / (|v1| |v2|)),
\*                    ulp |-> the rounding of the double result when the exact one is 1]
cosineSimilarity(text1, text2) ==
  LET words1   == split(toLowerCase(text1))
      words2   == split(toLowerCase(text2))
      allWords == Range(words1) \cup Range(words2)
      dot      == SumOver(allWords, [w \in allWords |-> CountOf(words1, w) * CountOf(words2, w)])
      sq1      == SumOver(allWords, [w \in allWords |-> CountOf(words1, w) * CountOf(words1, w)])
      sq2      == SumOver(allWords, [w \in allWords |-> CountOf(words2, w) * CountOf(words2, w)])
  IN  IF sq1 = 0 \/ sq2 = 0 THEN [milli |-> 0, ulp |-> 0]
      ELSE [milli |-> ISqrt((Scale * Scale * dot * dot) \div (sq1 * sq2)),
            ulp   |-> IF dot * dot # sq1 * sq2 THEN 0
                      ELSE IF <<sq1, sq2>> \in SqrtProductBelow THEN 1
                      ELSE IF <<sq1, sq2>> \in SqrtProductAbove THEN -1
                      ELSE 0]

\* one row of the edit-distance matrix: cur holds matrix[i][0..j-1]
RECURSIVE LevenshteinRow(_, _, _, _, _)
LevenshteinRow(str1, ch, prev, cur, j) ==
  IF j > Len(str1) THEN cur
  ELSE LET cell == IF ch = str1[j] THEN prev[j]
                   ELSE Min2(prev[j] + 1, Min2(cur[j] + 1, prev[j + 1] + 1))
       IN  \* the test evaluates the cell before the next one is computed
           IF cell >= 0 THEN LevenshteinRow(str1, ch, prev, Append(cur, cell), j + 1)
           ELSE cur

RECURSIVE LevenshteinRows(_, _, _, _)
LevenshteinRows(str1, str2, i, prev) ==
  IF i > Len(str2) THEN prev[Len(str1) + 1]
  ELSE LET row == LevenshteinRow(str1, str2[i], prev, <<i>>, 1)
       IN  IF Len(row) >= 0 THEN LevenshteinRows(str1, str2, i + 1, row)
           ELSE 0

levenshteinDistance(str1, str2) ==
  LevenshteinRows(str1, str2, 1, [j \in 1..(Len(str1) + 1) |-> j - 1])

\* levenshteinSimilarity: 1 - distance / maxLen, 1 when both are empty
levenshteinSimilarity(str1, str2) ==
  LET maxLen == Max2(Len(str1), Len(str2))
  IN  IF maxLen = 0 THEN Scale
      ELSE (Scale * (maxLen - levenshteinDistance(str1, str2))) \div maxLen

\* jaccardSimilarity: |intersection| / |union| of the word sets
jaccardSimilarity(text1, text2) ==
  LET set1 == Range(split(toLowerCase(text1)))
      set2 == Range(split(toLowerCase(text2)))
  IN  IF Cardinality(set1 \cup set2) = 0 THEN 0
      ELSE (Scale * Cardinality(set1 \cap set2)) \div Cardinality(set1 \cup set2)

\* whether some 3-character substring of word occurs in text
HasTrigramIn(word, text) ==
  \E i \in 0..(Len(word) - 3) : Includes(text, SubSeq(word, i + 1, i + 3))

\* partialMatching: a word weighs its length; a verbatim occurrence earns the
\* weight, a shared 3-character substring 30% of it (kept in tenths)
partialMatching(query, text) ==
  LET queryWords == split(toLowerCase(query))
      textLower  == toLowerCase(text)
      earned(word) ==
        IF Includes(textLower, word) THEN 10 * Len(word)
        ELSE IF Len(word) >= 3 /\ HasTrigramIn(word, textLower) THEN 3 * Len(word)
        ELSE 0
      matches     == SumSeq([i \in 1..Len(queryWords) |-> earned(queryWords[i])])
      totalWeight == SumSeq([i \in 1..Len(queryWords) |-> Len(queryWords[i])])
  IN  IF totalWeight = 0 THEN 0 ELSE (Scale * matches) \div (10 * totalWeight)

\* the TF-IDF term of combinedSimilarity: Math.min(1, tfidf / 2), 0 without corpus
normalizedTFIDF(query, text, corpus) ==
  IF Len(corpus) > 0
  THEN Min2(Scale, calculateTFIDF(query, text, corpus) \div 2)
  ELSE 0

\* combinedSimilarity: 0.25 cosine + 0.2 levenshtein + 0.2 jaccard
\*                     + 0.25 partial + 0.1 tfidf, in millionths
combinedSimilarityMicro(query, text, corpus) ==
    250 * cosineSimilarity(query, text).milli
  + 200 * levenshteinSimilarity(query, text)
  + 200 * jaccardSimilarity(query, text)
  + 250 * partialMatching(query, text)
  + 100 * normalizedTFIDF(query, text, corpus)

combinedSimilarity(query, text, corpus) ==
  combinedSimilarityMicro(query, text, corpus) \div Scale


(***************************************************************************)
(* AIServiceClass: the knowledge / question-answer service                 *)
(***************************************************************************)
\* the distinct elements of a sequence, each at its first occurrence
\* ([...new Set(list)])
RECURSIVE UniqueFrom(_, _)
UniqueFrom(list, seen) ==
  IF list = <<>> THEN seen
  ELSE UniqueFrom(Tail(list),
                  IF Head(list) \in Range(seen) THEN seen ELSE Append(seen, Head(list)))

Unique(list) == UniqueFrom(list, <<>>)

\* list.slice(0, n)
Slice(list, n) == SubSeq(list, 1, Min2(n, Len(list)))

\* list.join(' ')
RECURSIVE JoinWithSpace(_)
JoinWithSpace(list) ==
  IF list = <<>> THEN <<>>
  ELSE IF Len(list) = 1 THEN Head(list)
       ELSE Head(list) \o <<" ">> \o JoinWithSpace(Tail(list))

stopWords ==
  << <<"b_e", "b_ba", "s_anusvara">>,
     <<"b_ba", "s_aa">>,
     <<"b_ka", "s_i", "b_na", "s_virama", "b_ta", "s_u">>,
     <<"b_ta", "b_ba", "s_e">>,
     <<"b_ya", "b_da", "s_i">>,
     <<"b_ta", "s_aa", "b_ha", "b_la", "s_e">>,
     <<"b_e", "b_i">>,
     <<"b_sa", "s_e", "b_i">>,
     <<"b_ya", "s_e">>,
     <<"b_ya", "s_aa">>,
     <<"b_ya", "s_aa", "b_ra">>,
     <<"b_ta", "s_aa", "b_ra">>,
     <<"b_e", "b_ra">>,
     <<"b_sa", "s_e">>,
     <<"b_ta", "s_aa">>,
     <<"b_e", "b_tta", "s_aa">>,
     <<"b_o", "b_tta", "s_aa">>,
     <<"b_e", "b_ka", "b_tta", "s_i">>,
     <<"b_e", "b_ka", "b_tta", "s_aa">>,
     <<"b_ka", "s_o", "b_na", "s_o">>,
     <<"b_ka", "s_o", "b_na">> >>

\* extractKeywords: the words longer than 2 that are no stop word, once each
extractKeywords(content) ==
  LET words == SelectSeq(split(StripPunctuation(toLowerCase(content))),
                      LAMBDA word : Len(word) > 2)
  IN  Unique(SelectSeq(words, LAMBDA word : word \notin Range(stopWords)))

\* content.toLowerCase().match(/\b\w{3,}\b/g): the maximal runs of \w
\* characters that are at least 3 long
RECURSIVE WordRunsFrom(_, _)
WordRunsFrom(s, cur) ==
  IF s = <<>> THEN (IF Len(cur) >= 3 THEN <<cur>> ELSE <<>>)
  ELSE IF IsWordChar(Head(s)) THEN WordRunsFrom(Tail(s), Append(cur, Head(s)))
       ELSE (IF Len(cur) >= 3 THEN <<cur>> ELSE <<>>) \o WordRunsFrom(Tail(s), <<>>)

\* extractTags: the first 5 distinct such runs
extractTags(content) == Slice(Unique(WordRunsFrom(toLowerCase(content), <<>>)), 5)

\* the Fuse index: null until first built, then the documents it was built over
NoFuse == [built |-> FALSE, docs |-> <<>>]
NewFuse(docs) == [built |-> TRUE, docs |-> docs]

\* updateFuseInstance / updateQAFuseInstance: a new index over the collection,
\* but only when the collection is not empty
updateFuseInstance(collection, fuse) ==
  IF Len(collection) > 0 THEN NewFuse(collection) ELSE fuse

updateQAFuseInstance(collection, fuse) ==
  IF Len(collection) > 0 THEN NewFuse(collection) ELSE fuse

\* The scores a Fuse result may carry, in thousandths.  The callers compare a
\* result's score with 0.4 (question-answer index) or 0.5 (knowledge index)
\* only, so one score below both and one above both stand for all of them.
GoodScore == 0
PoorScore == 600

\* fuse.search(pattern): the library's ranking is not part of the repository,
\* so a search may return any selection of the indexed documents, each with a
\* good or a poor score, sorted by score and, at equal score, by position in
\* the index; a document whose first searched key equals the pattern is
\* always among the results with a good score (Fuse's exact-match shortcut).
FuseSearch(fuse, pattern, key) ==
  LET n == Len(fuse.docs)
      exact == { i \in 1..n : toLowerCase(fuse.docs[i][key]) = toLowerCase(pattern) }
      Absent == -1
      outcomes == { f \in [1..n -> {Absent, GoodScore, PoorScore}] :
                      \A e \in exact : f[e] = GoodScore }
      scored(f, score) ==
        SelectSeq([i \in 1..n |-> [ref |-> i, score |-> f[i]]],
                  LAMBDA hit : hit.score = score)
  IN  { scored(f, GoodScore) \o scored(f, PoorScore) : f \in outcomes }

\* the indexed documents of a ranking, best first, with their scores
FuseItems(fuse, hits) ==
  [i \in 1..Len(hits) |-> [item |-> fuse.docs[hits[i].ref], score |-> hits[i].score]]

\* similarityResults.sort((a, b) => b.score - a.score): a stable sort, highest
\* score first
RECURSIVE InsertByScore(_, _)
InsertByScore(sorted, entry) ==
  IF sorted = <<>> THEN <<entry>>
  ELSE IF Head(sorted).score >= entry.score
       THEN <<Head(sorted)>> \o InsertByScore(Tail(sorted), entry)
       ELSE <<entry>> \o sorted

RECURSIVE SortByScoreDesc(_)
SortByScoreDesc(list) ==
  IF list = <<>> THEN <<>>
  ELSE InsertByScore(SortByScoreDesc(SubSeq(list, 1, Len(list) - 1)), list[Len(list)])

\* the acceptance threshold of the combined similarity, 0.5, in millionths
CombinedThresholdMicro == 500000

NoMatch(steps) == [found |-> FALSE, answer |-> <<>>, step |-> "none", steps |-> steps]
Match(answer, step, steps) ==
  [found |-> TRUE, answer |-> answer, step |-> step, steps |-> steps]

\* a for...of loop over the collection returns at the first pair that passes
LastIndex(S) == CHOOSE i \in S : \A j \in S : i >= j
FirstIndex(S) == CHOOSE i \in S : \A j \in S : i <= j

\* step 1 of findMatchingQuestionAnswer: the first pair whose normalized
\* question equals the normalized query
ExactMatches(pairs, normalizedQuestionText) ==
  { i \in 1..Len(pairs) : normalizeText(pairs[i].question) = normalizedQuestionText }

\* step 2: the pairs whose combined similarity exceeds 0.5, best first
SimilarityResults(pairs, normalizedQuestionText) ==
  LET corpus == [i \in 1..Len(pairs) |-> pairs[i].question]
      scored == [i \in 1..Len(pairs) |->
                   [qaPair |-> i,
                    score  |-> combinedSimilarityMicro(normalizedQuestionText,
                                                       normalizeText(pairs[i].question),
                                                       corpus)]]
  IN  SortByScoreDesc(SelectSeq(scored, LAMBDA r : r.score > CombinedThresholdMicro))

\* the keyword test over all the words of the query, short ones included
KeywordMatchAllWords(pair, normalizedQuestionText) ==
  LET questionWords == split(normalizedQuestionText)
      qaPairWords   == split(normalizeText(pair.question))
      matchCount    == Cardinality({ i \in 1..Len(questionWords) :
                                       questionWords[i] \in Range(qaPairWords) })
  IN  10 * matchCount >= 6 * Len(questionWords) /\ matchCount > 0

\* step 4: whether at least 60% of the query words longer than 2 characters,
\* and at least one, are words of the stored question
KeywordMatch(pair, normalizedQuestionText) ==
  LET questionWords == SelectSeq(split(normalizedQuestionText), LAMBDA word : Len(word) > 2)
      qaPairWords   == split(normalizeText(pair.question))
      matchCount    == Cardinality({ i \in 1..Len(questionWords) :
                                       questionWords[i] \in Range(qaPairWords) })
  IN  10 * matchCount >= 6 * Len(questionWords) /\ matchCount > 0

\* findMatchingQuestionAnswer: exact match, then combined similarity, then the
\* fuzzy index, then keyword overlap.  The result is the set of outcomes the
\* call can have, one per ranking the index search may return when it is
\* consulted; steps lists the steps that were run.
findMatchingQuestionAnswer(question, pairs, qaFuse) ==
  LET normalizedQuestionText == normalizeText(question)
      exact   == ExactMatches(pairs, normalizedQuestionText)
      similar == SimilarityResults(pairs, normalizedQuestionText)
      keyword == { i \in 1..Len(pairs) : KeywordMatch(pairs[i], normalizedQuestionText) }
      afterFused == IF qaFuse.built THEN <<"exact", "fused", "fuzzy">>
                    ELSE <<"exact", "fused">>
      keywordStep ==
        IF keyword # {}
        THEN Match(pairs[FirstIndex(keyword)].answer, "keyword", Append(afterFused, "keyword"))
        ELSE NoMatch(Append(afterFused, "keyword"))
      fuzzyStep(hits) ==
        LET fuseResults == FuseItems(qaFuse, hits)
        IN  IF Len(fuseResults) > 0 /\ fuseResults[1].score < 400
            THEN Match(fuseResults[1].item.answer, "fuzzy", afterFused)
            ELSE keywordStep
  IN  IF exact # {}
      THEN { Match(pairs[FirstIndex(exact)].answer, "exact", <<"exact">>) }
      ELSE IF Len(similar) > 0
      THEN { Match(pairs[similar[1].qaPair].answer, "fused", <<"exact", "fused">>) }
      ELSE IF qaFuse.built
      THEN { fuzzyStep(hits) :
               hits \in FuseSearch(qaFuse, normalizedQuestionText, "question") }
      ELSE { keywordStep }

\* findBestMatches: the index results with a score below 0.5, else a keyword
\* containment scan of the collection; at most 3 items.  An unbuilt index
\* yields nothing.  The result is the set of lists the call can return.
findBestMatches(question, collection, fuse) ==
  LET normalizedQuestionText == normalizeText(question)
      questionWords == SelectSeq(split(normalizedQuestionText), LAMBDA word : Len(word) > 2)
      itemText(item) ==
        normalizeText(item.title \o <<" ">> \o item.content \o <<" ">>
                      \o JoinWithSpace(item.keywords))
      keywordMatches ==
        SelectSeq(collection,
               LAMBDA item : \E i \in 1..Len(questionWords) :
                               Includes(itemText(item), questionWords[i]))
      matches(hits) ==
        LET good == SelectSeq(FuseItems(fuse, hits), LAMBDA r : r.score < 500)
            goodMatches == [i \in 1..Len(good) |-> good[i].item]
        IN  IF Len(goodMatches) = 0 THEN Slice(keywordMatches, 3)
            ELSE Slice(goodMatches, 3)
  IN  IF ~fuse.built THEN { <<>> }
      ELSE { matches(hits) :
               hits \in FuseSearch(fuse, normalizedQuestionText, "title") }

greetings ==
  << <<"b_ha", "s_virama", "b_ya", "s_aa", "b_la", "s_o">>,
     <<"b_na", "b_ma", "b_sa", "s_virama", "b_ka", "s_aa", "b_ra">>,
     <<"b_sa", "s_aa", "b_la", "s_aa", "b_ma">>,
     <<"b_ha", "s_aa", "b_i">>,
     <<"h", "e", "l", "l", "o">>,
     <<"h", "i">> >>

thanks ==
  << <<"b_dha", "b_na", "s_virama", "b_ya", "b_ba", "s_aa", "b_da">>,
     <<"b_tha", "s_virama", "b_ya", "s_aa", "s_anusvara", "b_ka">>,
     <<"t", "h", "a", "n", "k", "s">>,
     <<"t", "h", "a", "n", "k", " ", "y", "o", "u">> >>

\* the words whose presence makes generateGeneralResponse give the
\* "interesting question" reply: '?', and three Bengali question words
questionMarkers ==
  << <<"?">>,
     <<"b_ka", "s_ii">>,
     <<"b_ka", "s_i", "b_bha", "s_aa", "b_ba", "s_e">>,
     <<"b_ka", "s_e", "b_na">> >>

\* the number of replies generalResponses holds
GeneralResponseCount == 4

\* generateGeneralResponse: the canned reply, named; random is the value of
\* Math.floor(Math.random() * generalResponses.length) + 1
generateGeneralResponse(question, random) ==
  IF \E i \in 1..Len(greetings) : Includes(toLowerCase(question), greetings[i])
  THEN "greeting"
  ELSE IF \E i \in 1..Len(thanks) : Includes(toLowerCase(question), thanks[i])
  THEN "thanks"
  ELSE IF \E i \in 1..Len(questionMarkers) : Includes(question, questionMarkers[i])
  THEN "question"
  ELSE IF random = 1 THEN "general1"
  ELSE IF random = 2 THEN "general2"
  ELSE IF random = 3 THEN "general3"
  ELSE "general4"

\* the canned replies of the service; none of them is the empty string
CannedReplies ==
  {"greeting", "thanks", "question", "general1", "general2", "general3", "general4"}

\* what a generateResponse call returns: the stored answer of a direct match
\* (text), an answer worked out of knowledge items (items), or a canned reply;
\* step is the matching step that accepted and steps the matching steps run
QAResponse(direct) ==
  [kind |-> "qa", text |-> direct.answer, items |-> <<>>, canned |-> "",
   step |-> direct.step, steps |-> direct.steps]

KnowledgeResponse(direct, relevantKnowledge) ==
  [kind |-> "knowledge", text |-> <<>>, items |-> relevantKnowledge, canned |-> "",
   step |-> direct.step, steps |-> direct.steps]

GeneralResponse(direct, reply) ==
  [kind |-> "general", text |-> <<>>, items |-> <<>>, canned |-> reply,
   step |-> direct.step, steps |-> direct.steps]

\* generateResponse: a direct question-answer match with a non-empty answer,
\* else an answer worked out of the best matching knowledge items
\* (extractSpecificAnswer / generateSmartResponse, kept as the items read),
\* else a canned reply.  The result is the set of responses the call can give.
generateResponse(question, pairs, qaFuse, collection, fuse) ==
  LET knowledgePath(direct) ==
        { IF Len(relevantKnowledge) > 0
          THEN KnowledgeResponse(direct, relevantKnowledge)
          ELSE GeneralResponse(direct, generateGeneralResponse(question, random)) :
            relevantKnowledge \in findBestMatches(question, collection, fuse),
            random \in 1..GeneralResponseCount }
  IN  UNION { IF direct.found /\ direct.answer # <<>>
              THEN { QAResponse(direct) }
              ELSE knowledgePath(direct) :
                direct \in findMatchingQuestionAnswer(question, pairs, qaFuse) }

\* getKnowledgeBase / getQuestionAnswerPairs: a copy, newest first (stable)
RECURSIVE InsertByTimestamp(_, _)
InsertByTimestamp(sorted, item) ==
  IF sorted = <<>> THEN <<item>>
  ELSE IF Head(sorted).timestamp >= item.timestamp
       THEN <<Head(sorted)>> \o InsertByTimestamp(Tail(sorted), item)
       ELSE <<item>> \o sorted

RECURSIVE SortNewestFirst(_)
SortNewestFirst(list) ==
  IF list = <<>> THEN <<>>
  ELSE InsertByTimestamp(SortNewestFirst(SubSeq(list, 1, Len(list) - 1)), list[Len(list)])

getKnowledgeBase(collection) == SortNewestFirst(collection)
getQuestionAnswerPairs(pairs) == SortNewestFirst(pairs)

\* a knowledge record whose title and content are stored as given
NewKnowledgeAsGiven(title, content, clock) ==
  [id        |-> clock,
   title     |-> title,
   content   |-> content,
   timestamp |-> clock,
   tags      |-> extractTags(content),
   keywords  |-> extractKeywords(content)]

\* the records learnFromText and addQuestionAnswer build; clock is Date.now()
NewKnowledge(title, content, clock) ==
  [id        |-> clock,
   title     |-> trim(title),
   content   |-> trim(content),
   timestamp |-> clock,
   tags      |-> extractTags(content),
   keywords  |-> extractKeywords(content)]

NewQAPair(question, answer, clock) ==
  [id        |-> clock,
   question  |-> trim(question),
   answer    |-> trim(answer),
   timestamp |-> clock,
   keywords  |-> extractKeywords(question)]

NoResponse == <<>>

\* the record of the last operation: its name, its arguments, the number of
\* records it removed, and the response of a generateResponse call
Operation(op, first, second, id, removed, response) ==
  [op |-> op, first |-> first, second |-> second, id |-> id,
   removed |-> removed, response |-> response]


\* the service as constructed over an empty localStorage
AIIdle ==
  /\ knowledgeBase = <<>>
  /\ questionAnswerPairs = <<>>
  /\ fuseInstance = updateFuseInstance(<<>>, NoFuse)
  /\ qaPairsFuse = updateQAFuseInstance(<<>>, NoFuse)
  /\ storedKnowledge = <<>>
  /\ storedQuestionAnswers = <<>>
  /\ now = 0
  /\ aiLast = Operation("none", <<>>, <<>>, 0, 0, NoResponse)

(***************************************************************************)
(* Regular expressions of the fact patterns.  A pattern is a sequence of   *)
(* elements: an ordered list of literal alternatives, or a repetition of a *)
(* character class (lazy or greedy); an element may be a capture group.    *)
(* An alternative with an optional last unit stands twice in the list,     *)
(* the longer form first.                                                  *)
(***************************************************************************)
Digits == {"0", "1", "2", "3", "4", "5", "6", "7", "8", "9"}

InClass(class, ch) ==
  IF class = "dot" THEN ch # "\n"
  ELSE IF class = "space" THEN IsWhite(ch)
  ELSE ch \in Digits

\* how many units from pos on are of the class, up to limit (-1: no limit)
RECURSIVE RunLength(_, _, _, _)
RunLength(text, pos, class, limit) ==
  IF limit = 0 \/ pos > Len(text) THEN 0
  ELSE IF InClass(class, text[pos])
       THEN 1 + RunLength(text, pos + 1, class, IF limit < 0 THEN limit ELSE limit - 1)
       ELSE 0

\* The backtracking matcher: <<>> when the elements from k on do not match at
\* pos, else the first match in the order the engine tries them, with the end
\* of the match and the captured groups.
RECURSIVE MatchFrom(_, _, _, _, _)
RECURSIVE MatchAlternatives(_, _, _, _, _, _)
RECURSIVE MatchRepetition(_, _, _, _, _, _, _)

MatchFrom(regex, k, text, pos, groups) ==
  IF k > Len(regex) THEN << [end |-> pos, groups |-> groups] >>
  ELSE IF regex[k].kind = "alt" THEN MatchAlternatives(regex, k, text, pos, groups, 1)
  ELSE LET run == RunLength(text, pos, regex[k].class, regex[k].max)
       IN  IF run < regex[k].min THEN <<>>
           ELSE MatchRepetition(regex, k, text, pos, groups,
                                IF regex[k].lazy THEN regex[k].min ELSE run, run)

MatchAlternatives(regex, k, text, pos, groups, a) ==
  IF a > Len(regex[k].alts) THEN <<>>
  ELSE LET literal == regex[k].alts[a]
           fits == /\ pos + Len(literal) - 1 <= Len(text)
                   /\ SubSeq(text, pos, pos + Len(literal) - 1) = literal
           rest == IF fits
                   THEN MatchFrom(regex, k + 1, text, pos + Len(literal),
                                  IF regex[k].capture THEN Append(groups, literal)
                                  ELSE groups)
                   ELSE <<>>
       IN  IF rest # <<>> THEN rest
           ELSE MatchAlternatives(regex, k, text, pos, groups, a + 1)

MatchRepetition(regex, k, text, pos, groups, length, run) ==
  IF length < regex[k].min \/ length > run THEN <<>>
  ELSE LET taken == SubSeq(text, pos, pos + length - 1)
           rest == MatchFrom(regex, k + 1, text, pos + length,
                             IF regex[k].capture THEN Append(groups, taken) ELSE groups)
       IN  IF rest # <<>> THEN rest
           ELSE MatchRepetition(regex, k, text, pos, groups,
                                IF regex[k].lazy THEN length + 1 ELSE length - 1, run)

\* text.match(regex) without the g flag: the leftmost match, <<>> for null,
\* else <<groups>> with groups[i] the text of capture group i.  When the
\* pattern begins with an unbounded run of any characters and the text from
\* start on has no line break, a match from a later start would also be one
\* from start, so the search ends at the first failure.
RECURSIVE MatchSearch(_, _, _)
MatchSearch(text, regex, start) ==
  IF start > Len(text) + 1 THEN <<>>
  ELSE LET found == MatchFrom(regex, 1, text, start, <<>>)
           openStart == /\ regex[1].kind = "rep" /\ regex[1].class = "dot"
                        /\ regex[1].max < 0
                        /\ RunLength(text, start, "dot", -1) = Len(text) - start + 1
       IN  IF found # <<>> THEN << found[1].groups >>
           ELSE IF openStart THEN <<>>
           ELSE MatchSearch(text, regex, start + 1)

match(text, regex) == MatchSearch(text, regex, 1)

\* /line 315 of EnhancedAIService.ts/
birthLocationPattern1 ==
  << [kind |-> "rep", capture |-> TRUE, class |-> "dot", min |-> 1, max |-> -1, lazy |-> TRUE,
       alts |-> <<>>],
     [kind |-> "rep", capture |-> FALSE, class |-> "space", min |-> 1, max |-> -1, lazy |-> FALSE,
       alts |-> <<>>],
     [kind |-> "alt", capture |-> TRUE, class |-> "none", min |-> 0, max |-> 0, lazy |-> FALSE,
       alts |-> << <<"b_pa", "b_sha", "s_virama", "b_ca", "s_i", "b_ma", "b_ba", "b_nga", "s_virama", "b_ga", "s_e", "b_ra">>, <<"b_pa", "b_sha", "s_virama", "b_ca", "s_i", "b_ma", "b_ba", "b_nga", "s_virama", "b_ga", "s_e">>, <<"b_ba", "s_aa", "s_anusvara", "b_la", "s_aa", "b_da", "s_e", "b_sha", "s_e", "b_ra">>, <<"b_ba", "s_aa", "s_anusvara", "b_la", "s_aa", "b_da", "s_e", "b_sha", "s_e">>, <<"b_bha", "s_aa", "b_ra", "b_ta", "s_e", "b_ra">>, <<"b_bha", "s_aa", "b_ra", "b_ta", "s_e">> >>],
     [kind |-> "rep", capture |-> FALSE, class |-> "space", min |-> 0, max |-> -1, lazy |-> FALSE,
       alts |-> <<>>],
     [kind |-> "rep", capture |-> TRUE, class |-> "dot", min |-> 1, max |-> -1, lazy |-> TRUE,
       alts |-> <<>>],
     [kind |-> "rep", capture |-> FALSE, class |-> "space", min |-> 0, max |-> -1, lazy |-> FALSE,
       alts |-> <<>>],
     [kind |-> "alt", capture |-> TRUE, class |-> "none", min |-> 0, max |-> 0, lazy |-> FALSE,
       alts |-> << <<"b_ja", "s_e", "b_la", "s_aa", "b_ra">>, <<"b_ja", "s_e", "b_la", "s_aa">>, <<"b_ba", "s_i", "b_bha", "s_aa", "b_ga", "s_e", "b_ra">>, <<"b_ba", "s_i", "b_bha", "s_aa", "b_ga", "s_e">> >>],
     [kind |-> "rep", capture |-> FALSE, class |-> "space", min |-> 0, max |-> -1, lazy |-> FALSE,
       alts |-> <<>>],
     [kind |-> "rep", capture |-> TRUE, class |-> "dot", min |-> 1, max |-> -1, lazy |-> TRUE,
       alts |-> <<>>],
     [kind |-> "rep", capture |-> FALSE, class |-> "space", min |-> 0, max |-> -1, lazy |-> FALSE,
       alts |-> <<>>],
     [kind |-> "alt", capture |-> TRUE, class |-> "none", min |-> 0, max |-> 0, lazy |-> FALSE,
       alts |-> << <<"b_ga", "s_virama", "b_ra", "s_aa", "b_ma", "s_e">>, <<"b_ga", "s_virama", "b_ra", "s_aa", "b_ma">>, <<"b_sha", "b_ha", "b_ra", "s_e">>, <<"b_sha", "b_ha", "b_ra">> >>],
     [kind |-> "rep", capture |-> FALSE, class |-> "space", min |-> 0, max |-> -1, lazy |-> FALSE,
       alts |-> <<>>],
     [kind |-> "alt", capture |-> TRUE, class |-> "none", min |-> 0, max |-> 0, lazy |-> FALSE,
       alts |-> << <<"b_ja", "b_na", "s_virama", "b_ma", "b_ga", "s_virama", "b_ra", "b_ha", "b_nna">>, <<"b_ja", "b_na", "s_virama", "b_ma">> >>] >>

\* /line 316 of EnhancedAIService.ts/
birthLocationPattern2 ==
  << [kind |-> "alt", capture |-> TRUE, class |-> "none", min |-> 0, max |-> 0, lazy |-> FALSE,
       alts |-> << <<"b_ja", "b_na", "s_virama", "b_ma", "b_ga", "s_virama", "b_ra", "b_ha", "b_nna">>, <<"b_ja", "b_na", "s_virama", "b_ma">> >>],
     [kind |-> "rep", capture |-> FALSE, class |-> "dot", min |-> 1, max |-> -1, lazy |-> TRUE,
       alts |-> <<>>],
     [kind |-> "rep", capture |-> TRUE, class |-> "dot", min |-> 1, max |-> -1, lazy |-> TRUE,
       alts |-> <<>>],
     [kind |-> "rep", capture |-> FALSE, class |-> "space", min |-> 0, max |-> -1, lazy |-> FALSE,
       alts |-> <<>>],
     [kind |-> "alt", capture |-> TRUE, class |-> "none", min |-> 0, max |-> 0, lazy |-> FALSE,
       alts |-> << <<"b_ga", "s_virama", "b_ra", "s_aa", "b_ma", "s_e">>, <<"b_ga", "s_virama", "b_ra", "s_aa", "b_ma">>, <<"b_sha", "b_ha", "b_ra", "s_e">>, <<"b_sha", "b_ha", "b_ra">>, <<"b_ja", "s_e", "b_la", "s_aa", "b_ya">>, <<"b_ja", "s_e", "b_la", "s_aa">> >>] >>

\* /line 317 of EnhancedAIService.ts/
birthLocationPattern3 ==
  << [kind |-> "rep", capture |-> TRUE, class |-> "dot", min |-> 1, max |-> -1, lazy |-> TRUE,
       alts |-> <<>>],
     [kind |-> "rep", capture |-> FALSE, class |-> "space", min |-> 0, max |-> -1, lazy |-> FALSE,
       alts |-> <<>>],
     [kind |-> "alt", capture |-> TRUE, class |-> "none", min |-> 0, max |-> 0, lazy |-> FALSE,
       alts |-> << <<"b_e">>, <<"b_e", "b_ra">>, <<"b_ta", "s_e">> >>],
     [kind |-> "rep", capture |-> FALSE, class |-> "space", min |-> 0, max |-> -1, lazy |-> FALSE,
       alts |-> <<>>],
     [kind |-> "alt", capture |-> TRUE, class |-> "none", min |-> 0, max |-> 0, lazy |-> FALSE,
       alts |-> << <<"b_ja", "b_na", "s_virama", "b_ma">>, <<"b_ja", "b_na", "s_virama", "b_ma", "b_ga", "s_virama", "b_ra", "b_ha", "b_nna">> >>] >>

\* /line 351 of EnhancedAIService.ts/
relationshipPattern1 ==
  << [kind |-> "alt", capture |-> TRUE, class |-> "none", min |-> 0, max |-> 0, lazy |-> FALSE,
       alts |-> << <<"b_ta", "s_aa", "b_ra">>, <<"b_ta", "s_aa", "s_candrabindu", "b_ra">>, <<"b_ta", "s_i", "b_na", "s_i">>, <<"b_e", "b_ra">> >>],
     [kind |-> "rep", capture |-> FALSE, class |-> "space", min |-> 1, max |-> -1, lazy |-> FALSE,
       alts |-> <<>>],
     [kind |-> "alt", capture |-> TRUE, class |-> "none", min |-> 0, max |-> 0, lazy |-> FALSE,
       alts |-> << <<"b_ba", "s_aa", "b_ba", "s_aa", "b_ra">>, <<"b_ma", "s_aa", "b_ta", "s_aa", "b_ra">>, <<"b_ma", "s_aa", "b_ya", "s_nukta", "s_e", "b_ra">>, <<"b_ma", "s_e", "b_ya", "s_nukta", "s_e", "b_ra">>, <<"b_cha", "s_e", "b_la", "s_e", "b_ra">>, <<"b_pa", "s_i", "b_ta", "s_aa", "b_ra">>, <<"b_ka", "b_na", "s_virama", "b_ya", "s_aa", "b_ra">>, <<"b_pa", "s_u", "b_ta", "s_virama", "b_ra", "s_e", "b_ra">>, <<"b_sa", "s_virama", "b_ta", "s_virama", "b_ra", "s_ii", "b_ra">>, <<"b_sa", "s_virama", "b_ba", "s_aa", "b_ma", "s_ii", "b_ra">> >>],
     [kind |-> "rep", capture |-> FALSE, class |-> "space", min |-> 1, max |-> -1, lazy |-> FALSE,
       alts |-> <<>>],
     [kind |-> "alt", capture |-> FALSE, class |-> "none", min |-> 0, max |-> 0, lazy |-> FALSE,
       alts |-> << <<"b_na", "s_aa", "b_ma">> >>],
     [kind |-> "rep", capture |-> FALSE, class |-> "space", min |-> 1, max |-> -1, lazy |-> FALSE,
       alts |-> <<>>],
     [kind |-> "rep", capture |-> TRUE, class |-> "dot", min |-> 1, max |-> -1, lazy |-> FALSE,
       alts |-> <<>>] >>

\* /line 352 of EnhancedAIService.ts/
relationshipPattern2 ==
  << [kind |-> "rep", capture |-> TRUE, class |-> "dot", min |-> 1, max |-> -1, lazy |-> TRUE,
       alts |-> <<>>],
     [kind |-> "rep", capture |-> FALSE, class |-> "space", min |-> 0, max |-> -1, lazy |-> FALSE,
       alts |-> <<>>],
     [kind |-> "alt", capture |-> TRUE, class |-> "none", min |-> 0, max |-> 0, lazy |-> FALSE,
       alts |-> << <<"b_ta", "s_aa", "b_ra">>, <<"b_ta", "s_aa", "s_candrabindu", "b_ra">>, <<"b_e", "b_ra">> >>],
     [kind |-> "rep", capture |-> FALSE, class |-> "space", min |-> 1, max |-> -1, lazy |-> FALSE,
       alts |-> <<>>],
     [kind |-> "alt", capture |-> TRUE, class |-> "none", min |-> 0, max |-> 0, lazy |-> FALSE,
       alts |-> << <<"b_ba", "s_aa", "b_ba", "s_aa">>, <<"b_ma", "s_aa">>, <<"b_pa", "s_i", "b_ta", "s_aa">>, <<"b_ma", "s_aa", "b_ta", "s_aa">>, <<"b_sa", "s_virama", "b_ta", "s_virama", "b_ra", "s_ii">>, <<"b_sa", "s_virama", "b_ba", "s_aa", "b_ma", "s_ii">>, <<"b_pa", "s_u", "b_ta", "s_virama", "b_ra">>, <<"b_ka", "b_na", "s_virama", "b_ya", "s_aa">> >>] >>

\* /line 353 of EnhancedAIService.ts/
relationshipPattern3 ==
  << [kind |-> "alt", capture |-> TRUE, class |-> "none", min |-> 0, max |-> 0, lazy |-> FALSE,
       alts |-> << <<"b_ba", "s_i", "b_ba", "s_aa", "b_ha">>, <<"b_ba", "s_i", "b_ya", "s_nukta", "s_e">> >>],
     [kind |-> "rep", capture |-> FALSE, class |-> "dot", min |-> 1, max |-> -1, lazy |-> TRUE,
       alts |-> <<>>],
     [kind |-> "rep", capture |-> TRUE, class |-> "dot", min |-> 1, max |-> -1, lazy |-> FALSE,
       alts |-> <<>>] >>

\* /line 372 of EnhancedAIService.ts/
timePattern1 ==
  << [kind |-> "rep", capture |-> TRUE, class |-> "digit", min |-> 4, max |-> 4, lazy |-> FALSE,
       alts |-> <<>>],
     [kind |-> "rep", capture |-> FALSE, class |-> "space", min |-> 0, max |-> -1, lazy |-> FALSE,
       alts |-> <<>>],
     [kind |-> "alt", capture |-> FALSE, class |-> "none", min |-> 0, max |-> 0, lazy |-> FALSE,
       alts |-> << <<"b_sa", "s_aa", "b_la", "s_e">>, <<"b_sa", "s_aa", "b_la">> >>],
     [kind |-> "rep", capture |-> FALSE, class |-> "space", min |-> 0, max |-> -1, lazy |-> FALSE,
       alts |-> <<>>],
     [kind |-> "alt", capture |-> TRUE, class |-> "none", min |-> 0, max |-> 0, lazy |-> FALSE,
       alts |-> << <<"b_ja", "b_na", "s_virama", "b_ma">>, <<"b_ja", "b_na", "s_virama", "b_ma", "b_ga", "s_virama", "b_ra", "b_ha", "b_nna">>, <<"b_ma", "s_vocalic_r", "b_ta", "s_virama", "b_ya", "s_u">>, <<"b_ma", "s_aa", "b_ra", "s_aa">>, <<"b_i", "b_na", "s_virama", "b_ta", "s_e", "b_ka", "s_aa", "b_la">> >>] >>

\* /line 373 of EnhancedAIService.ts/
timePattern2 ==
  << [kind |-> "rep", capture |-> TRUE, class |-> "digit", min |-> 1, max |-> 2, lazy |-> FALSE,
       alts |-> <<>>],
     [kind |-> "rep", capture |-> FALSE, class |-> "space", min |-> 0, max |-> -1, lazy |-> FALSE,
       alts |-> <<>>],
     [kind |-> "alt", capture |-> TRUE, class |-> "none", min |-> 0, max |-> 0, lazy |-> FALSE,
       alts |-> << <<"b_ja", "s_aa", "b_na", "s_u", "b_ya", "s_nukta", "s_aa", "b_ra", "s_i">>, <<"b_pha", "s_e", "b_ba", "s_virama", "b_ra", "s_u", "b_ya", "s_nukta", "s_aa", "b_ra", "s_i">>, <<"b_ma", "s_aa", "b_ra", "s_virama", "b_ca">>, <<"b_e", "b_pa", "s_virama", "b_ra", "s_i", "b_la">>, <<"b_ma", "s_e">>, <<"b_ja", "s_u", "b_na">>, <<"b_ja", "s_u", "b_la", "s_aa", "b_i">>, <<"b_aa", "b_ga", "b_sa", "s_virama", "b_tta">>, <<"b_sa", "s_e", "b_pa", "s_virama", "b_tta", "s_e", "b_ma", "s_virama", "b_ba", "b_ra">>, <<"b_a", "b_ka", "s_virama", "b_tta", "s_o", "b_ba", "b_ra">>, <<"b_na", "b_bha", "s_e", "b_ma", "s_virama", "b_ba", "b_ra">>, <<"b_dda", "s_i", "b_sa", "s_e", "b_ma", "s_virama", "b_ba", "b_ra">> >>],
     [kind |-> "rep", capture |-> FALSE, class |-> "space", min |-> 0, max |-> -1, lazy |-> FALSE,
       alts |-> <<>>],
     [kind |-> "rep", capture |-> TRUE, class |-> "digit", min |-> 4, max |-> 4, lazy |-> FALSE,
       alts |-> <<>>] >>

(***************************************************************************)
(* EnhancedAIServiceClass                                                  *)
(***************************************************************************)
frustrationPhrases ==
  << <<"b_ka", "s_e", "b_na", " ", "b_ba", "s_u", "b_jha", "b_ta", "s_e", " ", "b_pa", "s_aa", "b_ra", "b_cha", " ", "b_na", "s_aa">>,
     <<"b_aa", "b_ba", "s_aa", "b_ra", " ", "b_ba", "b_la">>,
     <<"b_ttha", "s_i", "b_ka", "b_ma", "b_ta", "s_o", " ", "b_ba", "b_la">> >>

curiosityPhrases ==
  << <<"b_ka", "s_i", "b_bha", "s_aa", "b_ba", "s_e">>,
     <<"b_ka", "s_e", "b_na">>,
     <<"b_ka", "s_i">>,
     <<"b_aa", "b_ra", "b_o", " ", "b_ja", "s_aa", "b_na", "b_ta", "s_e", " ", "b_ca", "s_aa", "b_i">> >>

positivePhrases ==
  << <<"b_dha", "b_na", "s_virama", "b_ya", "b_ba", "s_aa", "b_da">>,
     <<"b_bha", "s_aa", "b_la", "s_o">>,
     <<"b_da", "s_aa", "b_ra", "s_u", "b_nna">> >>

negativePhrases ==
  << <<"b_kha", "s_aa", "b_ra", "s_aa", "b_pa">>,
     <<"b_sa", "b_ma", "b_sa", "s_virama", "b_ya", "s_aa">>,
     <<"b_bha", "s_u", "b_la">> >>

followUpWords ==
  << <<"b_aa", "b_ra", "b_o">>,
     <<"b_ta", "s_aa", "b_ha", "b_la", "s_e">>,
     <<"b_aa", "b_ra">>,
     <<"b_a", "b_na", "s_virama", "b_ya">> >>

whereWords ==
  << <<"b_ka", "s_o", "b_tha", "s_aa", "b_ya", "s_nukta">>,
     <<"b_sa", "s_virama", "b_tha", "s_aa", "b_na">> >>

whenWords ==
  << <<"b_ka", "b_kha", "b_na">>,
     <<"b_sa", "b_ma", "b_ya", "s_nukta">> >>

whoWords ==
  << <<"b_na", "s_aa", "b_ma">>,
     <<"b_ka", "s_e">> >>

enhancedGreetings ==
  << <<"b_ha", "s_virama", "b_ya", "s_aa", "b_la", "s_o">>,
     <<"b_na", "b_ma", "b_sa", "s_virama", "b_ka", "s_aa", "b_ra">>,
     <<"b_sa", "s_aa", "b_la", "s_aa", "b_ma">>,
     <<"b_ha", "s_aa", "b_i">>,
     <<"h", "e", "l", "l", "o">>,
     <<"h", "i">> >>

enhancedThanks ==
  << <<"b_dha", "b_na", "s_virama", "b_ya", "b_ba", "s_aa", "b_da">>,
     <<"b_tha", "s_virama", "b_ya", "s_aa", "s_anusvara", "b_ka">>,
     <<"t", "h", "a", "n", "k", "s">>,
     <<"t", "h", "a", "n", "k", " ", "y", "o", "u">> >>

enhancedStopWords ==
  << <<"b_e", "b_ba", "s_anusvara">>,
     <<"b_ba", "s_aa">>,
     <<"b_ka", "s_i", "b_na", "s_virama", "b_ta", "s_u">>,
     <<"b_ta", "b_ba", "s_e">>,
     <<"b_ya", "b_da", "s_i">>,
     <<"b_ta", "s_aa", "b_ha", "b_la", "s_e">>,
     <<"b_e", "b_i">>,
     <<"b_sa", "s_e", "b_i">>,
     <<"b_ya", "s_e">>,
     <<"b_ya", "s_aa">>,
     <<"b_ya", "s_aa", "b_ra">>,
     <<"b_ta", "s_aa", "b_ra">>,
     <<"b_e", "b_ra">>,
     <<"b_sa", "s_e">>,
     <<"b_ta", "s_aa">>,
     <<"b_e", "b_tta", "s_aa">>,
     <<"b_o", "b_tta", "s_aa">>,
     <<"b_e", "b_ka", "b_tta", "s_i">>,
     <<"b_e", "b_ka", "b_tta", "s_aa">>,
     <<"b_ka", "s_o", "b_na", "s_o">>,
     <<"b_ka", "s_o", "b_na">>,
     <<"b_sa", "b_ba">>,
     <<"b_sa", "b_ka", "b_la">>,
     <<"b_aa", "b_ra">>,
     <<"b_o">> >>

DefaultSubject == <<"b_ta", "s_i", "b_na", "s_i">>

GenitiveSuffix == <<"b_ra">>

DistrictOf == <<" ", "b_ja", "s_e", "b_la", "s_aa", "b_ra", " ">>

InVillage == <<" ", "b_ga", "s_virama", "b_ra", "s_aa", "b_ma", "s_e">>

WasBorn == <<"b_ja", "b_na", "s_virama", "b_ma", "b_ga", "s_virama", "b_ra", "b_ha", "b_nna", " ", "b_ka", "b_ra", "s_e", "b_cha", "s_e", "b_na">>

BirthPlaceContext == <<"b_ja", "b_na", "s_virama", "b_ma", "b_sa", "s_virama", "b_tha", "s_aa", "b_na", " ", "b_ta", "b_tha", "s_virama", "b_ya">>

NameSuffix == <<" ", "b_na", "s_aa", "b_ma">>

FamilyContext == <<"b_pa", "s_aa", "b_ra", "s_i", "b_ba", "s_aa", "b_ra", "s_i", "b_ka", " ", "b_sa", "b_ma", "s_virama", "b_pa", "b_ra", "s_virama", "b_ka">>

InYear == <<" ", "b_sa", "s_aa", "b_la", "s_e">>

TimeContext == <<"b_sa", "b_ma", "b_ya", "s_nukta", "b_ka", "s_aa", "b_la", " ", "b_ta", "b_tha", "s_virama", "b_ya">>

NameWord == <<"b_na", "s_aa", "b_ma">>

\* text.split(/[<separators>]/): the pieces between separator units
RECURSIVE SplitOn(_, _, _)
SplitOn(text, separators, current) ==
  IF text = <<>> THEN <<current>>
  ELSE IF Head(text) \in separators
       THEN <<current>> \o SplitOn(Tail(text), separators, <<>>)
       ELSE SplitOn(Tail(text), separators, Append(current, Head(text)))

\* a confidence in thousandths
\* the same with a step of 0.5 for each pattern
BirthConfidenceSteep(index) == 900 - index * 500
BirthConfidence(index) == 900 - index * 100
RelationshipConfidence == 850
TimeConfidence == 900

Fact(type, subject, predicate, object, confidence, context) ==
  [type |-> type, subject |-> subject, predicate |-> predicate, object |-> object,
   confidence |-> confidence, context |-> context]

\* the `x || fallback` of a string: the fallback when x is empty
OrElse(x, fallback) == IF x = <<>> THEN fallback ELSE x

\* the facts the birth-location patterns yield on one sentence
BirthLocationFacts(sentence) ==
  LET m1 == match(sentence, birthLocationPattern1)
      m2 == match(sentence, birthLocationPattern2)
      m3 == match(sentence, birthLocationPattern3)
      state(g) == IF g[Len(g)] = GenitiveSuffix[1] THEN SubSeq(g, 1, Len(g) - 1) ELSE g
      first ==
        IF m1 = <<>> THEN <<>>
        ELSE << Fact("location", OrElse(trim(m1[1][1]), DefaultSubject), WasBorn,
                     trim(state(m1[1][2]) \o <<" ">> \o m1[1][3] \o DistrictOf
                          \o m1[1][5] \o InVillage),
                     BirthConfidence(0), BirthPlaceContext) >>
      second ==
        IF m2 = <<>> THEN <<>>
        ELSE << Fact("location", DefaultSubject, WasBorn,
                     trim(trim(m2[1][2]) \o <<" ">> \o m2[1][3]),
                     BirthConfidence(1), BirthPlaceContext) >>
      third ==
        IF m3 = <<>> THEN <<>>
        ELSE << Fact("location", DefaultSubject, WasBorn, trim(trim(m3[1][1])),
                     BirthConfidence(2), BirthPlaceContext) >>
  IN  first \o second \o third

\* the facts the relationship patterns yield on one sentence; the third
\* pattern has two groups only, so its object is empty
RelationshipFact(groups) ==
  Fact("relationship", OrElse(groups[1], DefaultSubject), groups[2] \o NameSuffix,
       IF Len(groups) >= 3 THEN trim(groups[3]) ELSE <<>>,
       RelationshipConfidence, FamilyContext)

RelationshipFacts(sentence) ==
  LET m1 == match(sentence, relationshipPattern1)
      m2 == match(sentence, relationshipPattern2)
      m3 == match(sentence, relationshipPattern3)
  IN  (IF m1 = <<>> THEN <<>> ELSE << RelationshipFact(m1[1]) >>)
      \o (IF m2 = <<>> THEN <<>> ELSE << RelationshipFact(m2[1]) >>)
      \o (IF m3 = <<>> THEN <<>> ELSE << RelationshipFact(m3[1]) >>)

\* the facts the time patterns yield on one sentence
TimeFact(groups) ==
  Fact("time", DefaultSubject, groups[2],
       groups[1] \o (IF Len(groups) >= 3
                     THEN <<" ">> \o groups[2] \o <<" ">> \o groups[3]
                     ELSE InYear),
       TimeConfidence, TimeContext)

TimeFacts(sentence) ==
  LET m1 == match(sentence, timePattern1)
      m2 == match(sentence, timePattern2)
  IN  (IF m1 = <<>> THEN <<>> ELSE << TimeFact(m1[1]) >>)
      \o (IF m2 = <<>> THEN <<>> ELSE << TimeFact(m2[1]) >>)

RECURSIVE FactsOfSentences(_)
FactsOfSentences(sentences) ==
  IF sentences = <<>> THEN <<>>
  ELSE LET trimmedSentence == trim(Head(sentences))
       IN  BirthLocationFacts(trimmedSentence) \o RelationshipFacts(trimmedSentence)
           \o TimeFacts(trimmedSentence) \o FactsOfSentences(Tail(sentences))

\* extractAdvancedFacts: the facts of every non-blank sentence, in order
extractAdvancedFacts(content) ==
  FactsOfSentences(SelectSeq(SplitOn(content, {"o_danda", "!", "?", "\n"}, <<>>),
                          LAMBDA s : Len(trim(s)) > 0))

\* whether the text includes one of the phrases
IncludesAny(text, phrases) ==
  \E i \in 1..Len(phrases) : Includes(text, phrases[i])

\* analyzeEmotionalContext: the sentiment the first matching phrase list gives
analyzeEmotionalContext(question) ==
  LET normalizedQuestionText == toLowerCase(question)
  IN  IF IncludesAny(normalizedQuestionText, frustrationPhrases) THEN "frustrated"
      ELSE IF IncludesAny(normalizedQuestionText, curiosityPhrases) THEN "curious"
      ELSE IF IncludesAny(normalizedQuestionText, positivePhrases) THEN "positive"
      ELSE IF IncludesAny(normalizedQuestionText, negativePhrases) THEN "negative"
      ELSE "neutral"

\* facts.reduce((best, current) => current.confidence > best.confidence ?
\* current : best): the first fact of the highest confidence
\* the same with the later fact preferred among equals
RECURSIVE BestFactLast(_, _)
BestFactLast(facts, best) ==
  IF facts = <<>> THEN best
  ELSE BestFactLast(Tail(facts),
                    IF Head(facts).confidence >= best.confidence THEN Head(facts) ELSE best)

RECURSIVE BestFact(_, _)
BestFact(facts, best) ==
  IF facts = <<>> THEN best
  ELSE BestFact(Tail(facts),
                IF Head(facts).confidence > best.confidence THEN Head(facts) ELSE best)

\* generateFactBasedResponse: the template used and the fact it is filled
\* with; the template "none" is the empty string
generateFactBasedResponse(question, facts) ==
  LET questionWords == split(toLowerCase(question))
      asks(words) == \E i \in 1..Len(questionWords) : questionWords[i] \in Range(words)
  IN  IF Len(facts) = 0 THEN [template |-> "none", fact |-> <<>>]
      ELSE [template |-> IF asks(whereWords) THEN "where"
                         ELSE IF asks(whenWords) THEN "when"
                         ELSE IF asks(whoWords) THEN "who"
                         ELSE "about",
            fact |-> << BestFact(Tail(facts), Head(facts)) >>]

\* generateContextAwareResponse: the prefix the sentiment gives (for the
\* curious and the positive tone one of three strings, drawn at random, which
\* the tone stands for), the follow-up topic, and the main response
generateContextAwareResponse(question, facts, sentiment, context) ==
  LET isFollowUp == /\ Len(context.previousQuestions) > 0
                    /\ IncludesAny(question, followUpWords)
  IN  [prefix   |-> IF sentiment \in {"frustrated", "curious", "positive"}
                    THEN sentiment ELSE "none",
       followUp |-> IF isFollowUp /\ context.currentTopic # <<>>
                    THEN context.currentTopic ELSE <<>>,
       main     |-> generateFactBasedResponse(question, facts)]

\* intelligentResponse.trim() is not the empty string: every prefix, the
\* follow-up phrase and every filled template hold visible characters
IsVisible(intelligentResponse) ==
  \/ intelligentResponse.prefix # "none"
  \/ intelligentResponse.followUp # <<>>
  \/ intelligentResponse.main.template # "none"

\* generateEmotionallyIntelligentResponse: the canned reply, named
generateEmotionallyIntelligentResponse(question, sentiment) ==
  IF IncludesAny(toLowerCase(question), enhancedGreetings) THEN "greeting"
  ELSE IF IncludesAny(toLowerCase(question), enhancedThanks) THEN "thanks"
  ELSE IF sentiment = "frustrated" THEN "frustrated"
  ELSE IF sentiment = "curious" THEN "curious"
  ELSE IF sentiment = "positive" THEN "positive"
  ELSE "default"

\* the canned replies of the enhanced service; none is the empty string
EnhancedCannedReplies ==
  {"greeting", "thanks", "frustrated", "curious", "positive", "default"}

\* updateFuseInstance of the enhanced service: as above, threshold 0.3
enhancedUpdateFuseInstance(collection, fuse) ==
  IF Len(collection) > 0 THEN NewFuse(collection) ELSE fuse

\* the score a result off the current topic must stay below, in thousandths
TopicThreshold == 300

\* the same without the return to the unfiltered results
NarrowByTopicOnly(fuseResults, currentTopic) ==
  LET contextMatches ==
        SelectSeq(fuseResults,
                  LAMBDA result : \/ currentTopic = <<>>
                                  \/ Includes(result.item.title, currentTopic)
                                  \/ result.score < TopicThreshold)
      kept == Slice(contextMatches, 3)
  IN  [i \in 1..Len(kept) |-> kept[i].item]

\* the filter and the slice of findBestMatches: the first 3 results about the
\* current topic or with a score below 0.3, the first 3 results when there is
\* no such result
NarrowByTopic(fuseResults, currentTopic) ==
  LET contextMatches ==
        SelectSeq(fuseResults,
                  LAMBDA result : \/ currentTopic = <<>>
                                  \/ Includes(result.item.title, currentTopic)
                                  \/ result.score < TopicThreshold)
      kept == IF Len(contextMatches) > 0 THEN Slice(contextMatches, 3)
              ELSE Slice(fuseResults, 3)
  IN  [i \in 1..Len(kept) |-> kept[i].item]

\* findBestMatches of the enhanced service: the results about the current
\* topic or with a score below 0.3, else all results; at most 3 items.  The
\* result is the set of lists the call can return.
enhancedFindBestMatches(question, fuse, context) ==
  LET normalizedQuestionText == enhancedNormalizeText(question)
  IN  IF ~fuse.built THEN { <<>> }
      ELSE { NarrowByTopic(FuseItems(fuse, hits), context.currentTopic) :
               hits \in FuseSearch(fuse, normalizedQuestionText, "title") }

\* previousQuestions.push(question), and shift() beyond 10 questions
HistoryLimit == 10
PushQuestion(previousQuestions, question) ==
  LET pushed == Append(previousQuestions, question)
  IN  IF Len(pushed) > HistoryLimit THEN Tail(pushed) ELSE pushed

\* generateResponse of the enhanced service.  The result is the set of
\* outcomes the call can have: the response, the conversation context it
\* leaves, and whether it saved the context.
enhancedGenerateResponse(question, fuse, context, clock) ==
  LET asked == [context EXCEPT
                  !.previousQuestions = PushQuestion(context.previousQuestions, question)]
      sentiment == analyzeEmotionalContext(question)
      general ==
        [response |-> [kind |-> "general",
                       canned |-> generateEmotionallyIntelligentResponse(question, sentiment),
                       answer |-> <<>>, items |-> <<>>],
         context  |-> asked,
         saved    |-> FALSE]
      \* extractAdvancedFacts(relevantKnowledge[0].content), worked out once for
      \* each document the index can return
      factsOf == [document \in Range(fuse.docs) |->
                    extractAdvancedFacts(document.content)]
      outcome(relevantKnowledge) ==
        LET intelligentResponse ==
              generateContextAwareResponse(question, factsOf[relevantKnowledge[1]],
                                           sentiment, asked)
        IN  IF Len(relevantKnowledge) > 0 /\ IsVisible(intelligentResponse)
            THEN [response |-> [kind |-> "knowledge", canned |-> "",
                                answer |-> << intelligentResponse >>,
                                items |-> relevantKnowledge],
                  context  |-> [asked EXCEPT
                                  !.sessionMemory =
                                     Append(@, [question  |-> question,
                                                answer    |-> intelligentResponse,
                                                timestamp |-> clock]),
                                  !.currentTopic = relevantKnowledge[1].title],
                  saved    |-> TRUE]
            ELSE general
  IN  { outcome(relevantKnowledge) :
          relevantKnowledge \in enhancedFindBestMatches(question, fuse, asked) }

\* extractKeywords of the enhanced service: a longer stop-word list
enhancedExtractKeywords(content) ==
  LET words == SelectSeq(split(StripPunctuation(toLowerCase(content))),
                      LAMBDA word : Len(word) > 2)
  IN  Unique(SelectSeq(words, LAMBDA word : word \notin Range(enhancedStopWords)))

\* extractTags of the enhanced service: the first 8 distinct word runs
enhancedExtractTags(content) == Slice(Unique(WordRunsFrom(toLowerCase(content), <<>>)), 8)

\* sentence.split(/\s+/) for each sentence, all the words in order
RECURSIVE WordsOfSentences(_)
WordsOfSentences(sentences) ==
  IF sentences = <<>> THEN <<>>
  ELSE split(Head(sentences)) \o WordsOfSentences(Tail(sentences))

\* extractRelatedTopics: the first 5 distinct words longer than 4
extractRelatedTopics(content) ==
  Slice(Unique(SelectSeq(WordsOfSentences(SplitOn(content, {"o_danda", "!", "?"}, <<>>)),
                      LAMBDA word : Len(word) > 4)), 5)

\* whether /\d{4}/ matches: four digits in a row
HasYear(content) ==
  \E i \in 1..(Len(content) - 3) : \A j \in i..(i + 3) : content[j] \in Digits

\* calculateImportance, in tenths, at most 3
calculateImportance(content) ==
  Min2(10 + (IF Len(content) > 500 THEN 5 ELSE 0)
          + (IF Len(content) > 1000 THEN 5 ELSE 0)
          + (IF HasYear(content) THEN 3 ELSE 0)
          + (IF Includes(content, NameWord) THEN 2 ELSE 0), 30)

\* the record learnFromText of the enhanced service builds
NewEnhancedKnowledge(title, content, clock) ==
  [id            |-> clock,
   title         |-> trim(title),
   content       |-> trim(content),
   timestamp     |-> clock,
   tags          |-> enhancedExtractTags(content),
   keywords      |-> enhancedExtractKeywords(content),
   importance    |-> calculateImportance(content),
   relatedTopics |-> extractRelatedTopics(content)]

\* the conversation context the constructor and clearKnowledgeBase set
\* (userPreferences is never written and is left out)
EmptyContext == [previousQuestions |-> <<>>, currentTopic |-> <<>>, sessionMemory |-> <<>>]

\* the record of the last operation of the enhanced service
EnhancedOperation(op, first, second, id, removed, response) ==
  [op |-> op, first |-> first, second |-> second, id |-> id,
   removed |-> removed, response |-> response]

\* the enhanced service as constructed over an empty localStorage
EnhancedIdle ==
  /\ enhancedKnowledgeBase = <<>>
  /\ enhancedFuseInstance = enhancedUpdateFuseInstance(<<>>, NoFuse)
  /\ conversationContext = EmptyContext
  /\ enhancedStoredKnowledge = <<>>
  /\ storedContext = <<>>
  /\ enhancedLast = EnhancedOperation("none", <<>>, <<>>, 0, 0, NoResponse)


(***************************************************************************)
(* Normalizer harness: a text is drawn, then normalized once and twice     *)
(***************************************************************************)
W_kirup  == <<"b_ka", "s_i", "b_ra", "s_uu", "b_pa">>
W_kemon  == <<"b_ka", "s_e", "b_ma", "b_na">>
W_mrityu == <<"b_ma", "s_vocalic_r", "b_ta", "s_virama", "b_ya", "s_u">>

NormPieces ==
  { <<"a">>, <<"A">>, <<" ">>, <<"?">>, W_kirup, W_kemon, W_mrityu }

RECURSIVE PieceTexts(_)
PieceTexts(n) ==
  IF n = 0 THEN { <<>> }
  ELSE LET shorter == PieceTexts(n - 1)
       IN  shorter \cup { t \o p : t \in shorter, p \in NormPieces }

NormInputs == PieceTexts(MaxPieces)

Normalizers == {"advancedNormalizeText", "normalizeText", "normalizeQuestion"}

NormIdle == nFn = "none" /\ nIn = <<>> /\ nOut = <<>>
SimIdle == simQuery = <<>> /\ simText = <<>> /\ simCorpus = <<>> /\ simResult = <<>>
IntentIdle == intentQuestion = <<>> /\ intentResult = <<>>
CallIdle == callName = "none" /\ callArgs = <<>> /\ callResult = <<>>

\* the AIServiceClass of services/AIService.ts before any call: no context
\* object is modelled until the service is constructed
ChatIdle == chatContext = <<>> /\ chatStored = <<>> /\ chatLast = <<>>

\* the VoiceMessage component as mounted
VoiceIdle ==
  /\ pressed = FALSE
  /\ isRecording = FALSE
  /\ audioBlob = "null"
  /\ mediaRecorderRef = 0
  /\ recorders = <<>>
  /\ pendingGrants = 0

\* the parts of the model a run of the services above leaves alone
OthersIdle == CallIdle /\ ChatIdle /\ VoiceIdle

NormCurrent == IF nOut = <<>> THEN nIn ELSE nOut[Len(nOut)]

ApplyAdvancedNormalizeText ==
  /\ nFn = "advancedNormalizeText"
  /\ Len(nOut) < 2
  /\ nOut' = Append(nOut, advancedNormalizeText(NormCurrent))
  /\ UNCHANGED <<nFn, nIn, normFrame>>

ApplyNormalizeText ==
  /\ nFn = "normalizeText"
  /\ Len(nOut) < 2
  /\ nOut' = Append(nOut, normalizeText(NormCurrent))
  /\ UNCHANGED <<nFn, nIn, normFrame>>

ApplyNormalizeQuestion ==
  /\ nFn = "normalizeQuestion"
  /\ Len(nOut) < 2
  /\ nOut' = Append(nOut, normalizeQuestion(NormCurrent))
  /\ UNCHANGED <<nFn, nIn, normFrame>>

NormInit ==
  /\ nFn \in Normalizers
  /\ nIn \in NormInputs
  /\ nOut = <<>>
  /\ SimIdle /\ AIIdle /\ EnhancedIdle /\ IntentIdle /\ OthersIdle

NormNext ==
  \/ ApplyAdvancedNormalizeText
  \/ ApplyNormalizeText
  \/ ApplyNormalizeQuestion

SpecNorm == NormInit /\ [][NormNext]_vars

\* C8: normalization is idempotent, for each of the three normalizers:
\* normalizing the result of a normalization leaves it unchanged.
C8_NormalizeIdempotent ==
  Len(nOut) = 2 => nOut[2] = nOut[1]

\* C9: the result of advancedNormalizeText / normalizeQuestion has no leading
\* or trailing white space and no run of two white-space characters, so
\* splitting it on white space yields no empty token.
IsCanonical(s) ==
  /\ s # <<>> => ~IsWhite(s[1]) /\ ~IsWhite(s[Len(s)])
  /\ \A i \in 1..(Len(s) - 1) : ~(IsWhite(s[i]) /\ IsWhite(s[i + 1]))

C9_NormalizerCanonical ==
  (nFn \in {"advancedNormalizeText", "normalizeQuestion"} /\ Len(nOut) >= 1)
    => /\ IsCanonical(nOut[1])
       /\ (nOut[1] # <<>> => \A i \in 1..Len(split(nOut[1])) : split(nOut[1])[i] # <<>>)

(***************************************************************************)
(* Similarity harness: a query, a text and a corpus are drawn, then every  *)
(* measure is computed on them                                             *)
(***************************************************************************)
SimPieces == { <<"a">>, <<" ">>, <<"b", "a", "b">> }

RECURSIVE SimTexts(_)
SimTexts(n) ==
  IF n = 0 THEN { <<>> }
  ELSE LET shorter == SimTexts(n - 1)
       IN  shorter \cup { t \o p : t \in shorter, p \in SimPieces }

\* a document that shares no word with the drawn texts
FillerDoc == <<"z">>

SimCorpora(query, text) ==
  { <<>>, <<text>>, <<text, query>>, <<text, FillerDoc, FillerDoc>> }

SimInit ==
  /\ simQuery \in SimTexts(MaxSimPieces)
  /\ simText \in SimTexts(MaxSimPieces)
  /\ simCorpus \in SimCorpora(simQuery, simText)
  /\ simResult = <<>>
  /\ NormIdle /\ AIIdle /\ EnhancedIdle /\ IntentIdle /\ OthersIdle

ComputeSimilarity ==
  /\ simResult = <<>>
  /\ simResult' = << [cosine      |-> cosineSimilarity(simQuery, simText),
                   levenshtein |-> levenshteinSimilarity(simQuery, simText),
                   jaccard     |-> jaccardSimilarity(simQuery, simText),
                   partial     |-> partialMatching(simQuery, simText),
                   tfidf       |-> normalizedTFIDF(simQuery, simText, simCorpus),
                   combined    |-> combinedSimilarity(simQuery, simText, simCorpus)] >>
  /\ UNCHANGED <<simQuery, simText, simCorpus, simFrame>>

SimNext == ComputeSimilarity

SpecSim == SimInit /\ [][SimNext]_vars

InUnit(v) == 0 <= v /\ v <= Scale

\* C10: every similarity measure, the normalized TF-IDF term and the combined
\* similarity lie in [0,1], for every pair of texts and every corpus.
C10_SimilarityRange ==
  simResult # <<>> =>
    /\ InUnit(simResult[1].cosine.milli) /\ simResult[1].cosine.ulp <= 0
    /\ InUnit(simResult[1].levenshtein)
    /\ InUnit(simResult[1].jaccard)
    /\ InUnit(simResult[1].partial)
    /\ InUnit(simResult[1].tfidf)
    /\ InUnit(simResult[1].combined)

\* C11: a text compared with itself has Levenshtein similarity 1 and, when it
\* is not empty, cosine similarity exactly 1 and Jaccard similarity 1.
C11_SelfSimilarity ==
  (simResult # <<>> /\ simQuery = simText) =>
    /\ simResult[1].levenshtein = Scale
    /\ simQuery # <<>> =>
         /\ simResult[1].cosine.milli = Scale
         /\ simResult[1].cosine.ulp = 0
         /\ simResult[1].jaccard = Scale

(***************************************************************************)
(* AIServiceClass as a state machine                                       *)
(***************************************************************************)
\* the texts taught to the service: a padded title and content, and a second
\* item
KnowledgeInputs ==
  { [title |-> <<" ", "s", "u", "n", " ">>, content |-> <<"s", "u", "n", " ", "i", "s", " ", "h", "o", "t", " ">>],
    [title |-> <<"s", "e", "a">>, content |-> <<"t", "h", "e", " ", "s", "e", "a", " ", "h", "a", "s", " ", "s", "a", "l", "t">>] }

\* the questions asked while the knowledge collection is exercised: a stored
\* title, a content word, and a greeting
KnowledgeQuestions == { <<"s", "u", "n">>, <<"s", "a", "l", "t">>, <<"h", "i">> }

\* the pairs added: two whose questions normalize to the same text, and a third
QAInputs ==
  { [question |-> <<"A", "b", "c", " ", "x", "y", "z", " ">>, answer |-> <<"o", "n", "e">>],
    [question |-> <<"a", "b", "c", " ", "x", "y", "z">>, answer |-> <<"t", "w", "o">>],
    [question |-> <<"x", "y", "z", " ", "m", "n", "o", "p", " ", "q", "r", "s", "t">>, answer |-> <<"t", "h", "r", "e", "e">>] }

\* the questions asked while the question-answer collection is exercised: an
\* exact match, a near match, and a question sharing one long word with the
\* third pair
QAQuestions ==
  { <<"a", "b", "c", " ", "x", "y", "z">>,
    <<"a", "b", "c", " ", "x", "y", "z", " ", "p", "q">>,
    <<"a", "b", " ", "x", "y", "z">> }

\* a millisecond passes
Tick ==
  /\ now < MaxClock
  /\ now' = now + 1
  /\ UNCHANGED <<knowledgeBase, questionAnswerPairs, fuseInstance, qaPairsFuse,
                 storedKnowledge, storedQuestionAnswers, aiLast>>
  /\ UNCHANGED aiFrame

LearnFromText(title, content) ==
  /\ Len(knowledgeBase) < MaxKnowledge
  /\ knowledgeBase' = Append(knowledgeBase, NewKnowledge(title, content, now))
  /\ storedKnowledge' = knowledgeBase'
  /\ fuseInstance' = updateFuseInstance(knowledgeBase', fuseInstance)
  /\ aiLast' = Operation("learnFromText", title, content, now, 0, NoResponse)
  /\ UNCHANGED <<questionAnswerPairs, qaPairsFuse, storedQuestionAnswers, now>>
  /\ UNCHANGED aiFrame

AddQuestionAnswer(question, answer) ==
  /\ Len(questionAnswerPairs) < MaxQA
  /\ questionAnswerPairs' = Append(questionAnswerPairs, NewQAPair(question, answer, now))
  /\ storedQuestionAnswers' = questionAnswerPairs'
  /\ qaPairsFuse' = updateQAFuseInstance(questionAnswerPairs', qaPairsFuse)
  /\ aiLast' = Operation("addQuestionAnswer", question, answer, now, 0, NoResponse)
  /\ UNCHANGED <<knowledgeBase, fuseInstance, storedKnowledge, now>>
  /\ UNCHANGED aiFrame

DeleteKnowledge(id) ==
  /\ knowledgeBase' = SelectSeq(knowledgeBase, LAMBDA item : item.id # id)
  /\ storedKnowledge' = knowledgeBase'
  /\ fuseInstance' = updateFuseInstance(knowledgeBase', fuseInstance)
  /\ aiLast' = Operation("deleteKnowledge", <<>>, <<>>, id,
                         Len(knowledgeBase) - Len(knowledgeBase'), NoResponse)
  /\ UNCHANGED <<questionAnswerPairs, qaPairsFuse, storedQuestionAnswers, now>>
  /\ UNCHANGED aiFrame

DeleteQuestionAnswer(id) ==
  /\ questionAnswerPairs' = SelectSeq(questionAnswerPairs, LAMBDA item : item.id # id)
  /\ storedQuestionAnswers' = questionAnswerPairs'
  /\ qaPairsFuse' = updateQAFuseInstance(questionAnswerPairs', qaPairsFuse)
  /\ aiLast' = Operation("deleteQuestionAnswer", <<>>, <<>>, id,
                         Len(questionAnswerPairs) - Len(questionAnswerPairs'), NoResponse)
  /\ UNCHANGED <<knowledgeBase, fuseInstance, storedKnowledge, now>>
  /\ UNCHANGED aiFrame

\* a clear that empties the question-answer collection as well
ClearBothCollections ==
  /\ knowledgeBase' = <<>>
  /\ storedKnowledge' = knowledgeBase'
  /\ fuseInstance' = updateFuseInstance(knowledgeBase', fuseInstance)
  /\ questionAnswerPairs' = <<>>
  /\ storedQuestionAnswers' = questionAnswerPairs'
  /\ qaPairsFuse' = updateQAFuseInstance(questionAnswerPairs', qaPairsFuse)
  /\ aiLast' = Operation("clearKnowledgeBase", <<>>, <<>>, 0, Len(knowledgeBase), NoResponse)
  /\ UNCHANGED now
  /\ UNCHANGED aiFrame

ClearKnowledgeBase ==
  /\ knowledgeBase' = <<>>
  /\ storedKnowledge' = knowledgeBase'
  /\ fuseInstance' = updateFuseInstance(knowledgeBase', fuseInstance)
  /\ aiLast' = Operation("clearKnowledgeBase", <<>>, <<>>, 0, Len(knowledgeBase), NoResponse)
  /\ UNCHANGED <<questionAnswerPairs, qaPairsFuse, storedQuestionAnswers, now>>
  /\ UNCHANGED aiFrame

ClearQuestionAnswers ==
  /\ questionAnswerPairs' = <<>>
  /\ storedQuestionAnswers' = questionAnswerPairs'
  /\ qaPairsFuse' = updateQAFuseInstance(questionAnswerPairs', qaPairsFuse)
  /\ aiLast' = Operation("clearQuestionAnswers", <<>>, <<>>, 0,
                         Len(questionAnswerPairs), NoResponse)
  /\ UNCHANGED <<knowledgeBase, fuseInstance, storedKnowledge, now>>
  /\ UNCHANGED aiFrame

GenerateResponse(question) ==
  /\ \E response \in generateResponse(question, questionAnswerPairs, qaPairsFuse,
                                      knowledgeBase, fuseInstance) :
       aiLast' = Operation("generateResponse", question, <<>>, 0, 0, <<response>>)
  /\ UNCHANGED <<knowledgeBase, questionAnswerPairs, fuseInstance, qaPairsFuse,
                 storedKnowledge, storedQuestionAnswers, now>>
  /\ UNCHANGED aiFrame

\* the knowledge collection exercised, no question-answer pair stored
KBNext ==
  \/ Tick
  \/ \E input \in KnowledgeInputs : LearnFromText(input.title, input.content)
  \/ \E id \in 0..MaxClock : DeleteKnowledge(id)
  \/ ClearKnowledgeBase
  \/ \E question \in KnowledgeQuestions : GenerateResponse(question)

KBInit == AIIdle /\ EnhancedIdle /\ NormIdle /\ SimIdle /\ IntentIdle /\ OthersIdle

SpecKB == KBInit /\ [][KBNext]_vars

\* the question-answer collection exercised, no knowledge item stored
QANext ==
  \/ Tick
  \/ \E input \in QAInputs : AddQuestionAnswer(input.question, input.answer)
  \/ \E id \in 0..MaxClock : DeleteQuestionAnswer(id)
  \/ ClearQuestionAnswers
  \/ \E question \in QAQuestions : GenerateResponse(question)

QAInit == AIIdle /\ EnhancedIdle /\ NormIdle /\ SimIdle /\ IntentIdle /\ OthersIdle

SpecQA == QAInit /\ [][QANext]_vars

(***************************************************************************)
(* Properties of AIServiceClass                                            *)
(***************************************************************************)
Asked == aiLast.op = "generateResponse"
Response == aiLast.response[1]

\* C1: once deleteKnowledge(id) has removed an item, no generateResponse call
\* (through findBestMatches) uses an item with that id, also when the deleted
\* item was the last one of the collection.
C1_DeletedKnowledgeNeverUsed ==
  (aiLast.op = "deleteKnowledge" /\ aiLast.removed > 0) =>
    \A question \in KnowledgeQuestions :
      \A response \in generateResponse(question, questionAnswerPairs, qaPairsFuse,
                                        knowledgeBase, fuseInstance) :
        \A i \in 1..Len(response.items) : response.items[i].id # aiLast.id

\* C2: after deleteQuestionAnswer / clearQuestionAnswers, an answer that
\* generateResponse returns from the question-answer collection, by any
\* matching step, is the answer of a pair that is still stored; no answer of a
\* removed pair is returned, also when the collection was left empty.
C2_RemovedAnswerNeverReturned ==
  (Asked /\ Response.kind = "qa") =>
    \E i \in 1..Len(questionAnswerPairs) :
      questionAnswerPairs[i].answer = Response.text

\* the stored pairs whose question normalizes to the same text as the query
AskedExact ==
  { i \in 1..Len(questionAnswerPairs) :
      normalizeText(questionAnswerPairs[i].question) = normalizeText(aiLast.first) }

AskedScore(i) ==
  combinedSimilarityMicro(normalizeText(aiLast.first),
                          normalizeText(questionAnswerPairs[i].question),
                          [k \in 1..Len(questionAnswerPairs) |->
                             questionAnswerPairs[k].question])

\* the number of the given query words that are words of stored question i
AskedOverlap(i, words) ==
  Cardinality({ w \in 1..Len(words) :
                  words[w] \in Range(split(normalizeText(questionAnswerPairs[i].question))) })

\* the cascade, with the keyword step counting over the given query words
Cascade(words) ==
  LET n == Len(questionAnswerPairs)
      above == { i \in 1..n : AskedScore(i) > 500000 }
      passes == { i \in 1..n : /\ 10 * AskedOverlap(i, words) >= 6 * Len(words)
                               /\ AskedOverlap(i, words) > 0 }
  IN  (Asked /\ AskedExact = {}) =>
        /\ Response.steps \in { <<"exact", "fused">>,
                                <<"exact", "fused", "fuzzy">>,
                                <<"exact", "fused", "keyword">>,
                                <<"exact", "fused", "fuzzy", "keyword">> }
        /\ Response.step \in {"fused", "fuzzy", "keyword", "none"}
        /\ Response.step # "none" => Response.steps[Len(Response.steps)] = Response.step
        /\ above # {} <=> Response.step = "fused"
        /\ Response.step = "fused" =>
             \E i \in above :
               /\ \A j \in 1..n : AskedScore(j) <= AskedScore(i)
               /\ \A j \in 1..(i - 1) : AskedScore(j) < AskedScore(i)
               /\ Response.text = questionAnswerPairs[i].answer
        /\ Response.step \in {"keyword", "none"} =>
             /\ Response.step = "keyword" <=> passes # {}
             /\ Response.step = "keyword" =>
                  \E i \in passes : /\ \A j \in passes : i <= j
                                    /\ Response.text = questionAnswerPairs[i].answer

C5_WitnessFused ==
  /\ Asked /\ AskedExact = {}
  /\ Response.step = "fused"
  /\ Len(questionAnswerPairs) = 2
  /\ AskedScore(1) = AskedScore(2)
  /\ questionAnswerPairs[1].answer # questionAnswerPairs[2].answer

\* C6: no two items of the knowledge collection share an id, and no two pairs
\* of the question-answer collection share an id.
C6_IdsUnique ==
  /\ \A i, j \in 1..Len(knowledgeBase) :
       i # j => knowledgeBase[i].id # knowledgeBase[j].id
  /\ \A i, j \in 1..Len(questionAnswerPairs) :
       i # j => questionAnswerPairs[i].id # questionAnswerPairs[j].id

\* C7: learnFromText(title, content) adds exactly one item to what
\* getKnowledgeBase() returns: the new item has the trimmed title, the trimmed
\* content and the keywords extractKeywords(content); the items returned
\* before are all returned unchanged and in the same order.
C7_LearnRoundTrip ==
  [][ \A input \in KnowledgeInputs :
        LearnFromText(input.title, input.content) =>
          LET before == getKnowledgeBase(knowledgeBase)
              after  == getKnowledgeBase(knowledgeBase')
          IN  /\ Len(after) = Len(before) + 1
              /\ \E k \in 1..Len(after) :
                   /\ after[k].title = trim(input.title)
                   /\ after[k].content = trim(input.content)
                   /\ after[k].keywords = extractKeywords(input.content)
                   /\ before = SubSeq(after, 1, k - 1) \o SubSeq(after, k + 1, Len(after)) ]_vars

C7_Witness ==
  /\ aiLast.op = "learnFromText"
  /\ aiLast.first # trim(aiLast.first)
  /\ Len(knowledgeBase) = 2
  /\ knowledgeBase[2].title = trim(aiLast.first)
  /\ knowledgeBase[2].keywords # <<>>

(***************************************************************************)
(* EnhancedAIServiceClass as a state machine                               *)
(***************************************************************************)
\* the texts taught to the enhanced service: a biography of two sentences and
\* a padded title with a plain content
EnhancedInputs ==
  { [title |-> <<"b_ra", "b_ha", "s_i", "b_ma">>,
     content |-> <<"1", "9", "5", "0", " ", "b_sa", "s_aa", "b_la", "s_e", " ", "b_ja", "b_na", "s_virama", "b_ma", "o_danda", " ", "b_ra", "b_ha", "s_i", "b_ma", " ", "b_ddha", "s_aa", "b_ka", "s_aa", "b_ta", "s_e", " ", "b_ja", "b_na", "s_virama", "b_ma">>],
    [title |-> <<" ", "s", "u", "n", " ">>, content |-> <<"s", "u", "n", " ", "i", "s", " ", "h", "o", "t">>] }

\* the questions asked: a stored title, a curious question, and a greeting
EnhancedQuestions ==
  { <<"b_ra", "b_ha", "s_i", "b_ma">>,
    <<"s", "u", "n", " ", "b_ka", "s_i">>,
    <<"h", "i">> }

EnhancedLearnFromText(title, content) ==
  /\ Len(enhancedKnowledgeBase) < MaxKnowledge
  /\ enhancedKnowledgeBase' =
       Append(enhancedKnowledgeBase, NewEnhancedKnowledge(title, content, now))
  /\ enhancedStoredKnowledge' = enhancedKnowledgeBase'
  /\ enhancedFuseInstance' =
       enhancedUpdateFuseInstance(enhancedKnowledgeBase', enhancedFuseInstance)
  /\ enhancedLast' = EnhancedOperation("learnFromText", title, content, now, 0, NoResponse)
  /\ UNCHANGED <<conversationContext, storedContext>>
  /\ UNCHANGED enhancedFrame

EnhancedDeleteKnowledge(id) ==
  /\ enhancedKnowledgeBase' = SelectSeq(enhancedKnowledgeBase, LAMBDA item : item.id # id)
  /\ enhancedStoredKnowledge' = enhancedKnowledgeBase'
  /\ enhancedFuseInstance' =
       enhancedUpdateFuseInstance(enhancedKnowledgeBase', enhancedFuseInstance)
  /\ enhancedLast' =
       EnhancedOperation("deleteKnowledge", <<>>, <<>>, id,
                         Len(enhancedKnowledgeBase) - Len(enhancedKnowledgeBase'),
                         NoResponse)
  /\ UNCHANGED <<conversationContext, storedContext>>
  /\ UNCHANGED enhancedFrame

EnhancedClearKnowledgeBase ==
  /\ enhancedKnowledgeBase' = <<>>
  /\ conversationContext' = EmptyContext
  /\ enhancedStoredKnowledge' = enhancedKnowledgeBase'
  /\ storedContext' = << conversationContext' >>
  /\ enhancedFuseInstance' =
       enhancedUpdateFuseInstance(enhancedKnowledgeBase', enhancedFuseInstance)
  /\ enhancedLast' =
       EnhancedOperation("clearKnowledgeBase", <<>>, <<>>, 0,
                         Len(enhancedKnowledgeBase), NoResponse)
  /\ UNCHANGED enhancedFrame

EnhancedGenerateResponse(question) ==
  /\ Len(conversationContext.previousQuestions) < MaxAsked
  /\ \E outcome \in enhancedGenerateResponse(question, enhancedFuseInstance,
                                              conversationContext, now) :
       /\ conversationContext' = outcome.context
       /\ storedContext' = IF outcome.saved THEN << outcome.context >> ELSE storedContext
       /\ enhancedLast' = EnhancedOperation("generateResponse", question, <<>>, 0, 0,
                                            << outcome.response >>)
  /\ UNCHANGED <<enhancedKnowledgeBase, enhancedFuseInstance, enhancedStoredKnowledge>>
  /\ UNCHANGED enhancedFrame

EnhancedNext ==
  \/ Tick
  \/ \E input \in EnhancedInputs : EnhancedLearnFromText(input.title, input.content)
  \/ \E id \in 0..MaxClock : EnhancedDeleteKnowledge(id)
  \/ EnhancedClearKnowledgeBase
  \/ \E question \in EnhancedQuestions : EnhancedGenerateResponse(question)

EnhancedInit == EnhancedIdle /\ AIIdle /\ NormIdle /\ SimIdle /\ IntentIdle /\ OthersIdle

SpecEnhanced == EnhancedInit /\ [][EnhancedNext]_vars

\* C3: a generateResponse call of the enhanced service made while the
\* knowledge collection is empty (never filled, or emptied by
\* clearKnowledgeBase / deleteKnowledge) returns one of the canned replies and
\* leaves currentTopic and sessionMemory as they were.
C3_EmptyKnowledgeFallback ==
  [][ \A question \in EnhancedQuestions :
        (enhancedKnowledgeBase = <<>> /\ EnhancedGenerateResponse(question)) =>
          /\ enhancedLast'.response[1].kind = "general"
          /\ enhancedLast'.response[1].canned \in EnhancedCannedReplies
          /\ conversationContext'.currentTopic = conversationContext.currentTopic
          /\ conversationContext'.sessionMemory = conversationContext.sessionMemory ]_vars

(***************************************************************************)
(* Question intent analysis of the enhanced service                        *)
(***************************************************************************)
\* advancedQuestionPatterns: the trigger phrases of each intent type, in
\* declaration order
advancedQuestionPatterns ==
  << [type |-> "birth_location",
       patterns |-> << <<"b_ka", "s_o", "b_tha", "s_aa", "b_ya", "s_nukta", " ", "b_ja", "b_na", "s_virama", "b_ma", "b_ga", "s_virama", "b_ra", "b_ha", "b_nna">>,
                       <<"b_ka", "s_o", "b_tha", "s_aa", "b_ya", "s_nukta", " ", "b_ja", "b_na", "s_virama", "b_ma">>,
                       <<"b_ja", "b_na", "s_virama", "b_ma", "b_sa", "s_virama", "b_tha", "s_aa", "b_na">>,
                       <<"b_ka", "s_o", "b_na", " ", "b_ga", "s_virama", "b_ra", "s_aa", "b_ma", "s_e", " ", "b_ja", "b_na", "s_virama", "b_ma">>,
                       <<"b_ja", "b_na", "s_virama", "b_ma", "b_bha", "s_uu", "b_ma", "s_i">>,
                       <<"b_ja", "b_na", "s_virama", "b_ma", " ", "b_ha", "b_ya", "s_nukta", "s_e", "b_cha", "s_e", " ", "b_ka", "s_o", "b_tha", "s_aa", "b_ya", "s_nukta">>,
                       <<"b_ja", "b_na", "s_virama", "b_ma", "s_e", "b_ra", " ", "b_sa", "s_virama", "b_tha", "s_aa", "b_na">>,
                       <<"b_ja", "b_na", "s_virama", "b_ma", "s_e", "b_ra", " ", "b_ja", "s_aa", "b_ya", "s_nukta", "b_ga", "s_aa">>,
                       <<"b_ka", "s_o", "b_na", " ", "b_ja", "s_aa", "b_ya", "s_nukta", "b_ga", "s_aa", "b_ya", "s_nukta", " ", "b_ja", "b_na", "s_virama", "b_ma">>,
                       <<"b_ja", "b_na", "s_virama", "b_ma", " ", "b_na", "s_i", "b_ya", "s_nukta", "s_e", "b_cha", "s_e", "b_na", " ", "b_ka", "s_o", "b_tha", "s_aa", "b_ya", "s_nukta">>,
                       <<"b_bha", "s_uu", "b_ma", "s_i", "b_ssa", "s_virama", "b_ttha", " ", "b_ha", "b_ya", "s_nukta", "s_e", "b_cha", "s_e", "b_na", " ", "b_ka", "s_o", "b_tha", "s_aa", "b_ya", "s_nukta">> >>],
     [type |-> "death_location",
       patterns |-> << <<"b_ka", "s_o", "b_tha", "s_aa", "b_ya", "s_nukta", " ", "b_ma", "s_vocalic_r", "b_ta", "s_virama", "b_ya", "s_u">>,
                       <<"b_ka", "s_o", "b_tha", "s_aa", "b_ya", "s_nukta", " ", "b_ma", "s_aa", "b_ra", "s_aa">>,
                       <<"b_ma", "s_vocalic_r", "b_ta", "s_virama", "b_ya", "s_u", "b_sa", "s_virama", "b_tha", "s_aa", "b_na">>,
                       <<"b_sha", "s_e", "b_ssa", " ", "b_na", "s_i", "s_visarga", "b_sha", "s_virama", "b_ba", "s_aa", "b_sa", " ", "b_ka", "s_o", "b_tha", "s_aa", "b_ya", "s_nukta">>,
                       <<"b_ma", "s_vocalic_r", "b_ta", "s_virama", "b_ya", "s_u", " ", "b_ha", "b_ya", "s_nukta", "s_e", "b_cha", "s_e", " ", "b_ka", "s_o", "b_tha", "s_aa", "b_ya", "s_nukta">>,
                       <<"b_ma", "s_aa", "b_ra", "s_aa", " ", "b_ga", "s_e", "b_cha", "s_e", "b_na", " ", "b_ka", "s_o", "b_tha", "s_aa", "b_ya", "s_nukta">>,
                       <<"b_i", "b_na", "s_virama", "b_ta", "s_e", "b_ka", "s_aa", "b_la", " ", "b_ka", "s_o", "b_tha", "s_aa", "b_ya", "s_nukta">> >>],
     [type |-> "relationship",
       patterns |-> << <<"b_sa", "b_ma", "s_virama", "b_pa", "b_ra", "s_virama", "b_ka", " ", "b_ka", "s_i">>,
                       <<"b_ka", "s_i", "b_bha", "s_aa", "b_ba", "s_e", " ", "b_sa", "b_ma", "s_virama", "b_pa", "b_ra", "s_virama", "b_ka", "s_i", "b_ta">>,
                       <<"b_sa", "s_anusvara", "b_ya", "s_o", "b_ga", " ", "b_ka", "s_i">>,
                       <<"b_ka", "s_i", " ", "b_sa", "b_ma", "s_virama", "b_pa", "b_ra", "s_virama", "b_ka">>,
                       <<"b_ba", "s_aa", "b_ba", "s_aa", "b_ra", " ", "b_na", "s_aa", "b_ma">>,
                       <<"b_ma", "s_aa", "b_ya", "s_nukta", "s_e", "b_ra", " ", "b_na", "s_aa", "b_ma">>,
                       <<"b_sa", "s_virama", "b_ta", "s_virama", "b_ra", "s_ii", "b_ra", " ", "b_na", "s_aa", "b_ma">>,
                       <<"b_sa", "s_virama", "b_ba", "s_aa", "b_ma", "s_ii", "b_ra", " ", "b_na", "s_aa", "b_ma">>,
                       <<"b_pa", "b_ra", "s_i", "b_ba", "s_aa", "b_ra">>,
                       <<"b_aa", "b_ta", "s_virama", "b_ma", "s_ii", "b_ya", "s_nukta">>,
                       <<"b_pa", "s_aa", "b_ra", "s_i", "b_ba", "s_aa", "b_ra", "s_i", "b_ka">> >>],
     [type |-> "time_inquiry",
       patterns |-> << <<"b_ka", "b_kha", "b_na", " ", "b_ja", "b_na", "s_virama", "b_ma">>,
                       <<"b_ka", "b_ta", " ", "b_sa", "s_aa", "b_la", "s_e", " ", "b_ja", "b_na", "s_virama", "b_ma">>,
                       <<"b_ka", "s_o", "b_na", " ", "b_ta", "s_aa", "b_ra", "s_i", "b_kha", "s_e">>,
                       <<"b_ka", "s_o", "b_na", " ", "b_da", "s_i", "b_na">>,
                       <<"b_ka", "b_kha", "b_na", " ", "b_ma", "s_vocalic_r", "b_ta", "s_virama", "b_ya", "s_u">>,
                       <<"b_ka", "b_ta", " ", "b_sa", "s_aa", "b_la", "s_e", " ", "b_ma", "s_vocalic_r", "b_ta", "s_virama", "b_ya", "s_u">>,
                       <<"b_ka", "s_o", "b_na", " ", "b_ba", "b_cha", "b_ra">> >>],
     [type |-> "comparison",
       patterns |-> << <<"b_ta", "s_u", "b_la", "b_na", "s_aa">>,
                       <<"b_pa", "s_aa", "b_ra", "s_virama", "b_tha", "b_ka", "s_virama", "b_ya", " ", "b_ka", "s_i">>,
                       <<"b_ka", "s_o", "b_na", "b_tta", "s_aa", " ", "b_bha", "s_aa", "b_la", "s_o">>,
                       <<"b_ka", "s_o", "b_na", "b_tta", "s_aa", " ", "b_ba", "s_e", "b_sha", "s_i">>,
                       <<"b_ma", "b_dha", "s_virama", "b_ya", "s_e", " ", "b_pa", "s_aa", "b_ra", "s_virama", "b_tha", "b_ka", "s_virama", "b_ya">>,
                       <<"b_ka", "s_o", "b_na", "b_tta", "s_i", " ", "b_u", "b_ta", "s_virama", "b_ta", "b_ma">>,
                       <<"b_ka", "s_aa", "b_ra", " ", "b_ca", "s_e", "b_ya", "s_nukta", "s_e">> >>],
     [type |-> "explanation",
       patterns |-> << <<"b_ba", "s_virama", "b_ya", "s_aa", "b_kha", "s_virama", "b_ya", "s_aa">>,
                       <<"b_ka", "s_e", "b_na", " ", "b_e", "b_ma", "b_na">>,
                       <<"b_ka", "s_i", "b_bha", "s_aa", "b_ba", "s_e", " ", "b_sa", "b_ma", "s_virama", "b_bha", "b_ba">>,
                       <<"b_ka", "s_i", " ", "b_ka", "s_aa", "b_ra", "b_nna", "s_e">>,
                       <<"b_ba", "s_i", "b_sa", "s_virama", "b_ta", "s_aa", "b_ra", "s_i", "b_ta">>,
                       <<"b_aa", "b_ra", "b_o", " ", "b_ja", "s_aa", "b_na", "b_ta", "s_e", " ", "b_ca", "s_aa", "b_i">>,
                       <<"b_ba", "s_u", "b_jha", "s_i", "b_ya", "s_nukta", "s_e", " ", "b_ba", "b_la", "s_u", "b_na">> >>] >>

\* this.advancedNormalizeText(pattern) of every trigger phrase
normalizedQuestionPatterns ==
  [k \in 1..Len(advancedQuestionPatterns) |->
     [j \in 1..Len(advancedQuestionPatterns[k].patterns) |->
        advancedNormalizeText(advancedQuestionPatterns[k].patterns[j])]]

\* the number of words of the pattern that contain, or are contained in, some
\* word of the question
WordMatches(questionWords, patternWords) ==
  Cardinality({ k \in 1..Len(patternWords) :
                  \E q \in 1..Len(questionWords) :
                     \/ Includes(questionWords[q], patternWords[k])
                     \/ Includes(patternWords[k], questionWords[q]) })

\* what one trigger phrase adds to the score of its intent type: 10 when the
\* question contains it, else 2 per matching word
PatternScore(normalizedQuestion, normalizedPattern) ==
  IF Includes(normalizedQuestion, normalizedPattern) THEN 10
  ELSE 2 * WordMatches(split(normalizedQuestion), split(normalizedPattern))

\* matchScore of the k-th intent type
MatchScore(normalizedQuestion, k) ==
  SumSeq([j \in 1..Len(normalizedQuestionPatterns[k]) |->
            PatternScore(normalizedQuestion, normalizedQuestionPatterns[k][j])])

\* matchedKeywords of the k-th intent type: the phrases that scored
MatchedKeywords(normalizedQuestion, k) ==
  LET hit == { j \in 1..Len(normalizedQuestionPatterns[k]) :
                 PatternScore(normalizedQuestion, normalizedQuestionPatterns[k][j]) > 0 }
  IN  SelectSeq([j \in 1..Len(normalizedQuestionPatterns[k]) |->
                   IF j \in hit THEN advancedQuestionPatterns[k].patterns[j] ELSE <<>>],
                LAMBDA pattern : pattern # <<>>)

\* Math.min(matchScore / 10, 1), in thousandths
IntentConfidence(matchScore) == Min2(100 * matchScore, Scale)

\* confidence > bestMatch.confidence, with the first type declared kept
\* among equals, against the comparison that keeps the last one
ReplacesOnTie(confidence, best) == confidence >= best
ReplacesBest(confidence, best) == confidence > best

RECURSIVE BestIntent(_, _, _)
BestIntent(normalizedQuestion, k, bestMatch) ==
  IF k > Len(advancedQuestionPatterns) THEN bestMatch
  ELSE LET confidence == IntentConfidence(MatchScore(normalizedQuestion, k))
       IN  BestIntent(normalizedQuestion, k + 1,
                      IF ReplacesBest(confidence, bestMatch.confidence)
                      THEN [type            |-> advancedQuestionPatterns[k].type,
                            confidence      |-> confidence,
                            keywords        |-> MatchedKeywords(normalizedQuestion, k),
                            normalizedQuery |-> normalizedQuestion]
                      ELSE bestMatch)

analyzeQuestionIntent(question) ==
  LET normalizedQuestion == advancedNormalizeText(question)
  IN  BestIntent(normalizedQuestion, 1,
                 [type            |-> "general",
                  confidence      |-> 0,
                  keywords        |-> <<>>,
                  normalizedQuery |-> normalizedQuestion])

(***************************************************************************)
(* Intent harness: a question is drawn, then analysed                      *)
(***************************************************************************)
\* "কোথায় জন্মগ্রহণ", the first trigger phrase of birth_location
BirthPhrase == advancedQuestionPatterns[1].patterns[1]

\* the pieces a question is made of: the birth phrase, a word of the death
\* phrases, a word of the relationship phrases, a word no phrase has, a
\* space and a question mark
IntentPieces ==
  { BirthPhrase, W_mrityu, <<"b_na", "s_aa", "b_ma">>,
    <<"h", "e", "l", "l", "o">>, <<" ">>, <<"?">> }

RECURSIVE IntentTexts(_)
IntentTexts(n) ==
  IF n = 0 THEN { <<>> }
  ELSE LET shorter == IntentTexts(n - 1)
       IN  shorter \cup { t \o p : t \in shorter, p \in IntentPieces }

IntentInit ==
  /\ intentQuestion \in IntentTexts(MaxIntentPieces)
  /\ intentResult = <<>>
  /\ NormIdle /\ SimIdle /\ AIIdle /\ EnhancedIdle /\ OthersIdle

AnalyzeQuestionIntent ==
  /\ intentResult = <<>>
  /\ intentResult' = <<analyzeQuestionIntent(intentQuestion)>>
  /\ UNCHANGED <<intentQuestion, intentFrame>>

IntentNext == AnalyzeQuestionIntent

SpecIntent == IntentInit /\ [][IntentNext]_vars

\* the words of the analysed question: the maximal runs of characters other
\* than white space of its normalized text
QuestionWords == SelectSeq(split(advancedNormalizeText(intentQuestion)), LAMBDA w : w # <<>>)

\* the words of the trigger phrases of every intent type
TriggerWords ==
  UNION { UNION { Range(split(normalizedQuestionPatterns[k][j])) :
                    j \in 1..Len(normalizedQuestionPatterns[k]) } :
          k \in 1..Len(advancedQuestionPatterns) }

TypeConfidence(k) == IntentConfidence(MatchScore(advancedNormalizeText(intentQuestion), k))

ContainsTriggerPhrase ==
  \E k \in 1..Len(advancedQuestionPatterns) :
     \E j \in 1..Len(normalizedQuestionPatterns[k]) :
        Includes(advancedNormalizeText(intentQuestion), normalizedQuestionPatterns[k][j])

\* C12: the intent returned is the first-declared type of maximal confidence;
\* it is 'general' with confidence 0 exactly when the question contains no
\* trigger phrase and none of its words contains or is contained in a trigger
\* word; a question that shares no word with a trigger phrase is 'general'.
\* Stated for the non-empty trimmed questions.
C12_IntentClassification ==
  (intentResult # <<>> /\ intentQuestion # <<>> /\ trim(intentQuestion) = intentQuestion) =>
    LET result == intentResult[1]
        types  == 1..Len(advancedQuestionPatterns)
        best   == { k \in types : TypeConfidence(k) > 0
                                  /\ \A other \in types : TypeConfidence(other) <= TypeConfidence(k) }
        touches == \E q \in 1..Len(QuestionWords) : \E v \in TriggerWords :
                      Includes(QuestionWords[q], v) \/ Includes(v, QuestionWords[q])
        shares  == \E q \in 1..Len(QuestionWords) : QuestionWords[q] \in TriggerWords
    IN  /\ best # {} =>
             /\ result.type = advancedQuestionPatterns[FirstIndex(best)].type
             /\ result.confidence = TypeConfidence(FirstIndex(best))
        /\ (result.type = "general" /\ result.confidence = 0)
             <=> (~ContainsTriggerPhrase /\ ~touches)
        /\ ~shares => result.type = "general"

\* C13: a question containing "কোথায় জন্মগ্রহণ" is classified birth_location
\* with a positive confidence that no other intent type exceeds.
C13_BirthLocationIntent ==
  (intentResult # <<>> /\ Includes(intentQuestion, BirthPhrase)) =>
    /\ intentResult[1].type = "birth_location"
    /\ intentResult[1].confidence > 0
    /\ \A k \in 1..Len(advancedQuestionPatterns) :
          TypeConfidence(k) <= intentResult[1].confidence

\* the birth phrase was asked and death_location is saturated too
C13_Witness ==
  /\ intentResult # <<>>
  /\ Includes(intentQuestion, BirthPhrase)
  /\ intentResult[1].type = "birth_location"
  /\ TypeConfidence(2) = Scale

(***************************************************************************)
(* The text generateResponse returns                                       *)
(***************************************************************************)
\* "দুঃখিত", the word every failed extraction opens its reply with
Sorry == <<"b_da", "s_u", "s_visarga", "b_kha", "s_i", "b_ta">>

\* extractSpecificAnswer(question, content) reads an answer out of the
\* content with patterns this model does not follow; what it returns is kept
\* as any of: the empty string, an apology, the content, or the text
\* 'undefined...' it builds for a content without sentences
SpecificAnswers(content) ==
  { <<>>, Sorry, content, <<"u", "n", "d", "e", "f", "i", "n", "e", "d", ".", ".", ".">> }

\* specificAnswer && !specificAnswer.includes('দুঃখিত'), against the test of
\* the apology alone
IsNoApology(answer) == ~Includes(answer, Sorry)
IsUsableAnswer(answer) == answer # <<>> /\ ~Includes(answer, Sorry)

\* list.join('। ')
RECURSIVE JoinSentences(_)
JoinSentences(list) ==
  IF list = <<>> THEN <<>>
  ELSE IF Len(list) = 1 THEN Head(list)
       ELSE Head(list) \o <<"o_danda", " ">> \o JoinSentences(Tail(list))

\* generateSmartResponse: the quoted title of the first item, then the
\* sentences of its content that hold a question word longer than two
\* characters (the whole content when none does), cut to 300 characters;
\* the fixed Bengali lead-in words around the title are left out
generateSmartResponse(question, knowledgeItems) ==
  LET questionWords    == split(normalizeText(question))
      primaryKnowledge == knowledgeItems[1]
      sentences        == SplitOn(primaryKnowledge.content, {"o_danda", "!", "?"}, <<>>)
      relevantSentences ==
        SelectSeq(sentences,
                  LAMBDA sentence :
                    \E i \in 1..Len(questionWords) :
                       /\ Len(questionWords[i]) > 2
                       /\ Includes(normalizeText(sentence), questionWords[i]))
      responseContent ==
        IF Len(relevantSentences) > 0
        THEN JoinSentences(relevantSentences) \o <<"o_danda">>
        ELSE primaryKnowledge.content
  IN  <<"\"">> \o primaryKnowledge.title \o <<"\"", ":", " ">> \o Slice(responseContent, 300)

\* the texts of the canned replies stand for themselves: each is a fixed
\* non-empty sentence
CannedText(reply) == <<reply>>

\* the strings a generateResponse call can resolve to, given the response it
\* worked out: the stored answer, a usable specific answer of one of the
\* items or else the smart response, or a canned reply
ReturnedTexts(question, response) ==
  IF response.kind = "qa" THEN { response.text }
  ELSE IF response.kind = "knowledge"
  THEN LET specific ==
             { answer \in UNION { SpecificAnswers(response.items[i].content) :
                                    i \in 1..Len(response.items) } :
                 IsUsableAnswer(answer) }
       IN  specific \cup { generateSmartResponse(question, response.items) }
  ELSE { CannedText(response.canned) }

\* the strings a generateResponse call of the enhanced service can resolve
\* to: the parts of the context-aware answer, or a canned reply
EnhancedReturnedTexts(response) ==
  IF response.kind = "knowledge"
  THEN { IF IsVisible(response.answer[1]) THEN <<"answer">> ELSE <<>> }
  ELSE { CannedText(response.canned) }

(***************************************************************************)
(* Both services asked, each over its own stores: a run exercises one of   *)
(* the two service objects                                                 *)
(***************************************************************************)
\* a pair with a blank answer
AnswerQAInputs ==
  { [question |-> <<"a", "b", "c", " ", "x", "y", "z">>, answer |-> <<" ">>] }

\* an item with a blank content and an item with a sentence
AnswerKnowledgeInputs ==
  { [title |-> <<" ", "s", "u", "n", " ">>, content |-> <<" ">>],
    [title |-> <<"s", "e", "a">>, content |-> <<"t", "h", "e", " ", "s", "e", "a", " ", "h", "a", "s", " ", "s", "a", "l", "t">>] }

\* a stored question, a stored title, a greeting and the empty question
AnswerQuestions ==
  { <<"a", "b", "c", " ", "x", "y", "z">>, <<"s", "u", "n">>, <<"h", "i">>, <<>> }

AnswerNext ==
  \/ /\ EnhancedIdle
     /\ \/ \E input \in AnswerQAInputs : AddQuestionAnswer(input.question, input.answer)
        \/ \E input \in AnswerKnowledgeInputs : LearnFromText(input.title, input.content)
        \/ DeleteKnowledge(0)
        \/ DeleteQuestionAnswer(0)
        \/ \E question \in AnswerQuestions : GenerateResponse(question)
  \/ /\ AIIdle
     /\ \/ \E input \in AnswerKnowledgeInputs :
              EnhancedLearnFromText(input.title, input.content)
        \/ EnhancedDeleteKnowledge(0)
        \/ \E question \in AnswerQuestions : EnhancedGenerateResponse(question)

AnswerInit == AIIdle /\ EnhancedIdle /\ NormIdle /\ SimIdle /\ IntentIdle /\ OthersIdle

SpecAnswer == AnswerInit /\ [][AnswerNext]_vars

Has(item, field) == field \in DOMAIN item

\* item.keywords || this.extractKeywords(item.content): extractKeywords calls
\* content.toLowerCase(), a TypeError when content is undefined
ThrowsOnLoad(item) == ~Has(item, "keywords") /\ ~Has(item, "content")

\* the in-memory record the map callback of loadKnowledgeFromStorage builds:
\* the stored properties, the timestamp parsed back, the keywords defaulted
LoadedKnowledge(item) ==
  [field \in DOMAIN item \cup {"timestamp", "keywords"} |->
     IF field = "keywords"
     THEN IF Has(item, "keywords") THEN item.keywords ELSE extractKeywords(item.content)
     ELSE item[field]]

\* loadKnowledgeFromStorage: the collection after the call.  A throw of the
\* map callback is caught around the whole load and the assignment never made.
loadKnowledgeFromStorage(stored, collection) ==
  IF Len(stored) = 0 THEN collection
  ELSE IF \E i \in 1..Len(stored) : ThrowsOnLoad(stored[i]) THEN collection
  ELSE [i \in 1..Len(stored) |-> LoadedKnowledge(stored[i])]

\* loadQuestionAnswersFromStorage: the same, the keywords defaulted from the question
QAThrowsOnLoad(item) == ~Has(item, "keywords") /\ ~Has(item, "question")

LoadedQAPair(item) ==
  [field \in DOMAIN item \cup {"timestamp", "keywords"} |->
     IF field = "keywords"
     THEN IF Has(item, "keywords") THEN item.keywords ELSE extractKeywords(item.question)
     ELSE item[field]]

loadQuestionAnswersFromStorage(stored, collection) ==
  IF Len(stored) = 0 THEN collection
  ELSE IF \E i \in 1..Len(stored) : QAThrowsOnLoad(stored[i]) THEN collection
  ELSE [i \in 1..Len(stored) |-> LoadedQAPair(stored[i])]

\* loadKnowledgeFromStorage of the enhanced service: importance and
\* relatedTopics are defaulted as well
EnhancedLoadedKnowledge(item) ==
  [field \in DOMAIN item \cup {"timestamp", "keywords", "importance", "relatedTopics"} |->
     IF field = "keywords"
     THEN IF Has(item, "keywords") THEN item.keywords
          ELSE enhancedExtractKeywords(item.content)
     ELSE IF field = "importance"
     THEN IF Has(item, "importance") /\ item.importance # 0 THEN item.importance ELSE 1
     ELSE IF field = "relatedTopics"
     THEN IF Has(item, "relatedTopics") THEN item.relatedTopics ELSE <<>>
     ELSE item[field]]

enhancedLoadKnowledgeFromStorage(stored, collection) ==
  IF Len(stored) = 0 THEN collection
  ELSE IF \E i \in 1..Len(stored) : ThrowsOnLoad(stored[i]) THEN collection
  ELSE [i \in 1..Len(stored) |-> EnhancedLoadedKnowledge(stored[i])]

\* loadConversationContext: the stored context, when there is one
loadConversationContext(stored, context) ==
  IF stored = <<>> THEN context ELSE stored[1]

\* new AIServiceClass(): the fields start empty, both collections are loaded
\* and both indexes built
Construct ==
  /\ knowledgeBase' = loadKnowledgeFromStorage(storedKnowledge, <<>>)
  /\ questionAnswerPairs' = loadQuestionAnswersFromStorage(storedQuestionAnswers, <<>>)
  /\ fuseInstance' = updateFuseInstance(knowledgeBase', NoFuse)
  /\ qaPairsFuse' = updateQAFuseInstance(questionAnswerPairs', NoFuse)
  /\ aiLast' = Operation("constructor", <<>>, <<>>, 0, 0, NoResponse)
  /\ UNCHANGED <<storedKnowledge, storedQuestionAnswers, now>>
  /\ UNCHANGED aiFrame

\* new EnhancedAIServiceClass()
EnhancedConstruct ==
  /\ enhancedKnowledgeBase' = enhancedLoadKnowledgeFromStorage(enhancedStoredKnowledge, <<>>)
  /\ conversationContext' = loadConversationContext(storedContext, EmptyContext)
  /\ enhancedFuseInstance' = enhancedUpdateFuseInstance(enhancedKnowledgeBase', NoFuse)
  /\ enhancedLast' = EnhancedOperation("constructor", <<>>, <<>>, 0, 0, NoResponse)
  /\ UNCHANGED <<enhancedStoredKnowledge, storedContext>>
  /\ UNCHANGED enhancedFrame

\* ---- what an earlier run may have left in localStorage['ai-knowledge-base']
MaxStored == 2   \* the stored list holds at most this many records

\* the item an earlier run learnt from "sea" / "the sea has salt"
StoredTitle == <<"s", "e", "a">>
StoredContent ==
  << "t", "h", "e", " ", "s", "e", "a", " ", "h", "a", "s", " ", "s", "a", "l", "t" >>

KnowledgeFields == DOMAIN NewKnowledge(<<>>, <<>>, 0)
EnhancedKnowledgeFields == DOMAIN NewEnhancedKnowledge(<<>>, <<>>, 0)

\* the stored form of that item with the properties named only
StoredRecord(id, fields) ==
  LET item == IF fields \subseteq KnowledgeFields
              THEN NewKnowledge(StoredTitle, StoredContent, id)
              ELSE NewEnhancedKnowledge(StoredTitle, StoredContent, id)
  IN  [field \in fields |-> item[field]]

\* the shapes of a stored record: complete, without keywords, without content,
\* with neither
StoredShapes(fields) ==
  { fields, fields \ {"keywords"}, fields \ {"content"}, fields \ {"keywords", "content"} }

RECURSIVE StoredLists(_, _)
StoredLists(fields, n) ==
  IF n = 0 THEN { <<>> }
  ELSE LET shorter == StoredLists(fields, n - 1)
       IN  shorter \cup
           { Append(list, StoredRecord(Len(list), shape)) :
               list \in { l \in shorter : Len(l) = n - 1 }, shape \in StoredShapes(fields) }

LoadInit ==
  /\ NormIdle /\ SimIdle /\ IntentIdle /\ OthersIdle
  /\ \/ /\ EnhancedIdle
        /\ storedKnowledge \in StoredLists(KnowledgeFields, MaxStored)
        /\ storedQuestionAnswers = <<>>
        /\ now = 0
        /\ knowledgeBase = loadKnowledgeFromStorage(storedKnowledge, <<>>)
        /\ questionAnswerPairs = <<>>
        /\ fuseInstance = updateFuseInstance(knowledgeBase, NoFuse)
        /\ qaPairsFuse = NoFuse
        /\ aiLast = Operation("constructor", <<>>, <<>>, 0, 0, NoResponse)
     \/ /\ AIIdle
        /\ enhancedStoredKnowledge \in StoredLists(EnhancedKnowledgeFields, MaxStored)
        /\ storedContext = <<>>
        /\ enhancedKnowledgeBase = enhancedLoadKnowledgeFromStorage(enhancedStoredKnowledge, <<>>)
        /\ conversationContext = EmptyContext
        /\ enhancedFuseInstance = enhancedUpdateFuseInstance(enhancedKnowledgeBase, NoFuse)
        /\ enhancedLast = EnhancedOperation("constructor", <<>>, <<>>, 0, 0, NoResponse)

LoadNext ==
  \/ /\ EnhancedIdle
     /\ \/ Construct
        \/ \E input \in AnswerKnowledgeInputs : LearnFromText(input.title, input.content)
        \/ \E id \in 0..MaxStored : DeleteKnowledge(id)
  \/ /\ AIIdle
     /\ \/ EnhancedConstruct
        \/ \E input \in AnswerKnowledgeInputs :
              EnhancedLearnFromText(input.title, input.content)
        \/ \E id \in 0..MaxStored : EnhancedDeleteKnowledge(id)

SpecLoad == LoadInit /\ [][LoadNext]_vars

\* a stored record is well formed when it has every property of a knowledge item
WellFormed(item, fields) == DOMAIN item = fields

\* the stored list holds one malformed record among well-formed ones
OneMalformed(stored, fields) ==
  /\ \E i \in 1..Len(stored) :
        /\ ThrowsOnLoad(stored[i])
        /\ \A j \in 1..Len(stored) : j # i => WellFormed(stored[j], fields)
  /\ \E j \in 1..Len(stored) : WellFormed(stored[j], fields)

\* every well-formed stored record is in the collection
KeepsWellFormed(stored, collection, fields) ==
  \A i \in 1..Len(stored) :
     WellFormed(stored[i], fields) =>
        \E j \in 1..Len(collection) :
           /\ collection[j].id = stored[i].id
           /\ collection[j].title = stored[i].title
           /\ collection[j].content = stored[i].content

\* C15: when a service is constructed over a stored knowledge list with one
\* malformed record (neither keywords nor content) among well-formed ones,
\* every well-formed record is in the in-memory collection afterwards.
C15_LoadTolerance ==
  /\ (aiLast.op = "constructor" /\ OneMalformed(storedKnowledge, KnowledgeFields)) =>
        KeepsWellFormed(storedKnowledge, knowledgeBase, KnowledgeFields)
  /\ (enhancedLast.op = "constructor"
        /\ OneMalformed(enhancedStoredKnowledge, EnhancedKnowledgeFields)) =>
        KeepsWellFormed(enhancedStoredKnowledge, enhancedKnowledgeBase,
                        EnhancedKnowledgeFields)

(***************************************************************************)
(* The mutating operations when localStorage.setItem may throw             *)
(***************************************************************************)
\* saveKnowledgeToStorage / saveQuestionAnswersToStorage: what localStorage
\* holds after the call.  When setItem throws (the quota is exceeded), the
\* catch logs the error and the stored value stays.
saveKnowledgeToStorage(collection, stored, written) ==
  IF written THEN collection ELSE stored

saveQuestionAnswersToStorage(collection, stored, written) ==
  IF written THEN collection ELSE stored

LearnFromTextWrite(title, content, written) ==
  /\ Len(knowledgeBase) < MaxKnowledge
  /\ knowledgeBase' = Append(knowledgeBase, NewKnowledge(title, content, now))
  /\ storedKnowledge' = saveKnowledgeToStorage(knowledgeBase', storedKnowledge, written)
  /\ fuseInstance' = updateFuseInstance(knowledgeBase', fuseInstance)
  /\ aiLast' = Operation("learnFromText", title, content, now, 0, NoResponse)
  /\ UNCHANGED <<questionAnswerPairs, qaPairsFuse, storedQuestionAnswers, now>>
  /\ UNCHANGED aiFrame

AddQuestionAnswerWrite(question, answer, written) ==
  /\ Len(questionAnswerPairs) < MaxQA
  /\ questionAnswerPairs' = Append(questionAnswerPairs, NewQAPair(question, answer, now))
  /\ storedQuestionAnswers' =
       saveQuestionAnswersToStorage(questionAnswerPairs', storedQuestionAnswers, written)
  /\ qaPairsFuse' = updateQAFuseInstance(questionAnswerPairs', qaPairsFuse)
  /\ aiLast' = Operation("addQuestionAnswer", question, answer, now, 0, NoResponse)
  /\ UNCHANGED <<knowledgeBase, fuseInstance, storedKnowledge, now>>
  /\ UNCHANGED aiFrame

DeleteKnowledgeWrite(id, written) ==
  /\ knowledgeBase' = SelectSeq(knowledgeBase, LAMBDA item : item.id # id)
  /\ storedKnowledge' = saveKnowledgeToStorage(knowledgeBase', storedKnowledge, written)
  /\ fuseInstance' = updateFuseInstance(knowledgeBase', fuseInstance)
  /\ aiLast' = Operation("deleteKnowledge", <<>>, <<>>, id,
                         Len(knowledgeBase) - Len(knowledgeBase'), NoResponse)
  /\ UNCHANGED <<questionAnswerPairs, qaPairsFuse, storedQuestionAnswers, now>>
  /\ UNCHANGED aiFrame

DeleteQuestionAnswerWrite(id, written) ==
  /\ questionAnswerPairs' = SelectSeq(questionAnswerPairs, LAMBDA item : item.id # id)
  /\ storedQuestionAnswers' =
       saveQuestionAnswersToStorage(questionAnswerPairs', storedQuestionAnswers, written)
  /\ qaPairsFuse' = updateQAFuseInstance(questionAnswerPairs', qaPairsFuse)
  /\ aiLast' = Operation("deleteQuestionAnswer", <<>>, <<>>, id,
                         Len(questionAnswerPairs) - Len(questionAnswerPairs'), NoResponse)
  /\ UNCHANGED <<knowledgeBase, fuseInstance, storedKnowledge, now>>
  /\ UNCHANGED aiFrame

ClearKnowledgeBaseWrite(written) ==
  /\ knowledgeBase' = <<>>
  /\ storedKnowledge' = saveKnowledgeToStorage(knowledgeBase', storedKnowledge, written)
  /\ fuseInstance' = updateFuseInstance(knowledgeBase', fuseInstance)
  /\ aiLast' = Operation("clearKnowledgeBase", <<>>, <<>>, 0, Len(knowledgeBase), NoResponse)
  /\ UNCHANGED <<questionAnswerPairs, qaPairsFuse, storedQuestionAnswers, now>>
  /\ UNCHANGED aiFrame

ClearQuestionAnswersWrite(written) ==
  /\ questionAnswerPairs' = <<>>
  /\ storedQuestionAnswers' =
       saveQuestionAnswersToStorage(questionAnswerPairs', storedQuestionAnswers, written)
  /\ qaPairsFuse' = updateQAFuseInstance(questionAnswerPairs', qaPairsFuse)
  /\ aiLast' = Operation("clearQuestionAnswers", <<>>, <<>>, 0,
                         Len(questionAnswerPairs), NoResponse)
  /\ UNCHANGED <<knowledgeBase, fuseInstance, storedKnowledge, now>>
  /\ UNCHANGED aiFrame

\* the collection a run leaves untouched
KnowledgeUntouched ==
  knowledgeBase = <<>> /\ storedKnowledge = <<>> /\ fuseInstance = NoFuse

QuestionAnswersUntouched ==
  questionAnswerPairs = <<>> /\ storedQuestionAnswers = <<>> /\ qaPairsFuse = NoFuse

\* a run exercises one of the two collections
SaveNext ==
  \/ Tick
  \/ /\ QuestionAnswersUntouched
     /\ \/ \E input \in AnswerKnowledgeInputs, written \in BOOLEAN :
              LearnFromTextWrite(input.title, input.content, written)
        \/ \E id \in 0..MaxClock, written \in BOOLEAN : DeleteKnowledgeWrite(id, written)
        \/ \E written \in BOOLEAN : ClearKnowledgeBaseWrite(written)
  \/ /\ KnowledgeUntouched
     /\ \/ \E input \in AnswerQAInputs, written \in BOOLEAN :
              AddQuestionAnswerWrite(input.question, input.answer, written)
        \/ \E id \in 0..MaxClock, written \in BOOLEAN :
              DeleteQuestionAnswerWrite(id, written)
        \/ \E written \in BOOLEAN : ClearQuestionAnswersWrite(written)

SaveInit == AIIdle /\ EnhancedIdle /\ NormIdle /\ SimIdle /\ IntentIdle /\ OthersIdle

SpecSave == SaveInit /\ [][SaveNext]_vars

\* a mutating operation whose storage write fails
KnowledgeWriteFails ==
  \/ \E input \in AnswerKnowledgeInputs :
        LearnFromTextWrite(input.title, input.content, FALSE)
  \/ \E id \in 0..MaxClock : DeleteKnowledgeWrite(id, FALSE)
  \/ ClearKnowledgeBaseWrite(FALSE)

QuestionAnswerWriteFails ==
  \/ \E input \in AnswerQAInputs :
        AddQuestionAnswerWrite(input.question, input.answer, FALSE)
  \/ \E id \in 0..MaxClock : DeleteQuestionAnswerWrite(id, FALSE)
  \/ ClearQuestionAnswersWrite(FALSE)

\* The part of the absorption that holds: a mutating operation whose storage
\* write fails completes, leaves localStorage as it was and leaves the mutated
\* collection in memory
SaveFailureKeepsMutation ==
  [][ /\ KnowledgeWriteFails =>
           /\ storedKnowledge' = storedKnowledge
           /\ aiLast'.op \in {"learnFromText", "deleteKnowledge", "clearKnowledgeBase"}
           /\ aiLast'.op = "learnFromText" =>
                knowledgeBase' =
                  Append(knowledgeBase, NewKnowledge(aiLast'.first, aiLast'.second, now))
           /\ aiLast'.op = "deleteKnowledge" =>
                knowledgeBase' = SelectSeq(knowledgeBase, LAMBDA item : item.id # aiLast'.id)
           /\ aiLast'.op = "clearKnowledgeBase" => knowledgeBase' = <<>>
      /\ QuestionAnswerWriteFails => storedQuestionAnswers' = storedQuestionAnswers
    ]_vars

\* C16: after a mutating operation whose storage write fails, the search
\* index of the collection is one built over the mutated contents.
C16_SaveFailureAbsorbed ==
  [][ /\ KnowledgeWriteFails => fuseInstance'.docs = knowledgeBase'
      /\ QuestionAnswerWriteFails => qaPairsFuse'.docs = questionAnswerPairs'
    ]_vars

(***************************************************************************)
(* The conversation context over a run that starts from a stored context   *)
(***************************************************************************)
MaxStoredQuestions == 12   \* the stored context holds at most this many questions
MaxSession == 3            \* the session memory is followed up to this many entries

\* the question a previous run was asked, and the one this run is asked
OldQuestion == <<"o", "l", "d">>
ContextQuestion == <<"b_ra", "b_ha", "s_i", "b_ma">>

\* the item of that title, as learnFromText stored it
ContextKnowledge ==
  << NewEnhancedKnowledge(
       <<"b_ra", "b_ha", "s_i", "b_ma">>,
       <<"1", "9", "5", "0", " ", "b_sa", "s_aa", "b_la", "s_e", " ", "b_ja", "b_na",
         "s_virama", "b_ma", "o_danda", " ", "b_ra", "b_ha", "s_i", "b_ma", " ",
         "b_ddha", "s_aa", "b_ka", "s_aa", "b_ta", "s_e", " ", "b_ja", "b_na",
         "s_virama", "b_ma">>, 0) >>

\* what localStorage['ai-conversation-context'] may hold: nothing, or a
\* context with some questions of a previous run
StoredContexts ==
  { <<>> } \cup
  { << [EmptyContext EXCEPT !.previousQuestions = [i \in 1..n |-> OldQuestion]] >> :
      n \in 0..MaxStoredQuestions }

\* generateResponse, followed while the session memory is short enough
AskInContext(question) ==
  /\ Len(conversationContext.sessionMemory) < MaxSession
  /\ \E outcome \in enhancedGenerateResponse(question, enhancedFuseInstance,
                                              conversationContext, now) :
       /\ conversationContext' = outcome.context
       /\ storedContext' = IF outcome.saved THEN << outcome.context >> ELSE storedContext
       /\ enhancedLast' = EnhancedOperation("generateResponse", question, <<>>, 0, 0,
                                            << outcome.response >>)
  /\ UNCHANGED <<enhancedKnowledgeBase, enhancedFuseInstance, enhancedStoredKnowledge>>
  /\ UNCHANGED enhancedFrame

ContextInit ==
  /\ AIIdle /\ NormIdle /\ SimIdle /\ IntentIdle /\ OthersIdle
  /\ enhancedStoredKnowledge \in { <<>>, ContextKnowledge }
  /\ storedContext \in StoredContexts
  /\ enhancedKnowledgeBase = enhancedLoadKnowledgeFromStorage(enhancedStoredKnowledge, <<>>)
  /\ conversationContext = loadConversationContext(storedContext, EmptyContext)
  /\ enhancedFuseInstance = enhancedUpdateFuseInstance(enhancedKnowledgeBase, NoFuse)
  /\ enhancedLast = EnhancedOperation("constructor", <<>>, <<>>, 0, 0, NoResponse)

ContextNext ==
  \/ EnhancedConstruct
  \/ AskInContext(ContextQuestion)

SpecContext == ContextInit /\ [][ContextNext]_vars

\* C17: after a generateResponse call previousQuestions holds at most 10
\* questions, the last of them the question just asked, also when the context
\* was loaded from storage with more than 10 questions.
C17_BoundedHistory ==
  enhancedLast.op = "generateResponse" =>
    /\ Len(conversationContext.previousQuestions) <= HistoryLimit
    /\ conversationContext.previousQuestions[Len(conversationContext.previousQuestions)]
         = enhancedLast.first

\* The history of a run that never loaded more than 10 questions: the stored
\* context, when there is one, holds at most 10 questions
LoadedWithinLimit ==
  storedContext # <<>> => Len(storedContext[1].previousQuestions) <= HistoryLimit

\* The bound holds for as long as no longer history was loaded
HistoryBoundedUnlessLoaded ==
  LoadedWithinLimit => Len(conversationContext.previousQuestions) <= HistoryLimit

\* C18: the session memory stays below a fixed number of entries: it never
\* reaches the number of entries up to which the run is followed.
C18_SessionMemoryCapped ==
  Len(conversationContext.sessionMemory) < MaxSession

\* C19: after every generateResponse call of the enhanced service, answered
\* from knowledge or by a canned reply, the stored conversation context is the
\* one in memory: the question just asked is in the stored previousQuestions and
\* the stored currentTopic is the current one.
C19_ContextPersisted ==
  enhancedLast.op = "generateResponse" =>
    /\ storedContext = << conversationContext >>
    /\ \E i \in 1..Len(storedContext[1].previousQuestions) :
          storedContext[1].previousQuestions[i] = enhancedLast.first
    /\ storedContext[1].currentTopic = conversationContext.currentTopic

\* The part that holds: a call answered from knowledge saves the context
SavedWhenAnswered ==
  (enhancedLast.op = "generateResponse" /\ enhancedLast.response[1].kind = "knowledge") =>
     storedContext = << conversationContext >>

\* the text of the matched item a context-aware answer carries: the object of
\* the fact its template is filled with, nothing when no template is used
QuotedContent(intelligentResponse) ==
  IF intelligentResponse.main.template = "none" THEN <<>>
  ELSE intelligentResponse.main.fact[1].object

\* the call was answered from an item no fact was extracted from
AnsweredWithoutFacts ==
  /\ enhancedLast.op = "generateResponse"
  /\ enhancedLast.response[1].kind = "knowledge"
  /\ extractAdvancedFacts(enhancedLast.response[1].items[1].content) = <<>>

\* C20: when the item matched by a query yields no fact, the answer of the
\* enhanced service carries text of that item's content; it is not a lead-in
\* phrase alone.
C20_NoFactsFallback ==
  AnsweredWithoutFacts => QuotedContent(enhancedLast.response[1].answer[1]) # <<>>

(***************************************************************************)
(* extractContextualFacts of AIServiceClass (services/AIService.ts)        *)
(***************************************************************************)
\* the first place from start on where the literal stands in the text with at
\* least one unit after it, 0 when there is none
RECURSIVE LiteralBeforeText(_, _, _)
LiteralBeforeText(text, literal, start) ==
  IF start + Len(literal) > Len(text) THEN 0
  ELSE IF SubSeq(text, start, start + Len(literal) - 1) = literal THEN start
  ELSE LiteralBeforeText(text, literal, start + 1)

\* the end of the lazy run (.+?) that starts at pos and stops before the first
\* white space or danda after its first unit, or at the end of the text
RECURSIVE LazyRunEnd(_, _)
LazyRunEnd(text, pos) ==
  IF pos >= Len(text) THEN Len(text)
  ELSE IF IsWhite(text[pos + 1]) \/ text[pos + 1] = "o_danda" THEN pos
  ELSE LazyRunEnd(text, pos + 1)

\* text.match(/<literal>(.+?)(?:\s|।|$)/) on a sentence, which holds no line
\* break: <<>> for null, else << <<group 1>> >>
MatchWordAfter(text, literal) ==
  LET at == LiteralBeforeText(text, literal, 1)
      first == at + Len(literal)
  IN  IF at = 0 THEN <<>>
      ELSE << << SubSeq(text, first, LazyRunEnd(text, first)) >> >>

\* the confidences extractContextualFacts gives, in thousandths
StatedConfidence == 900
InferredConfidence == 800

\* /line 171 of services/AIService.ts/ without its group
nameLiteral == <<"b_aa", "b_ma", "s_aa", "b_ra", " ", "b_na", "s_aa", "b_ma", " ">>
\* /line 197/
addressLiteral == <<"b_ba", "s_aa", "b_sa", "s_aa", " ">>
\* /line 210/
locationLiteral == <<"b_tha", "s_aa", "b_ka", "s_i", " ">>

\* /line 184 of services/AIService.ts/
agePattern ==
  << [kind |-> "alt", capture |-> FALSE, class |-> "none", min |-> 0, max |-> 0, lazy |-> FALSE,
       alts |-> << <<"b_ba", "b_ya", "s_nukta", "b_sa", " ">> >>],
     [kind |-> "rep", capture |-> TRUE, class |-> "digit", min |-> 1, max |-> -1, lazy |-> FALSE,
       alts |-> <<>>] >>

\* /line 223 of services/AIService.ts/
occupationPattern ==
  << [kind |-> "rep", capture |-> TRUE, class |-> "dot", min |-> 1, max |-> -1, lazy |-> TRUE,
       alts |-> <<>>],
     [kind |-> "rep", capture |-> FALSE, class |-> "space", min |-> 1, max |-> -1, lazy |-> FALSE,
       alts |-> <<>>],
     [kind |-> "alt", capture |-> TRUE, class |-> "none", min |-> 0, max |-> 0, lazy |-> FALSE,
       alts |-> << <<"b_ka", "b_ra", "s_virama", "b_ma", "b_ra", "b_ta">>, <<"b_ca", "s_aa", "b_ka", "b_ra", "s_i">>, <<"b_ka", "s_aa", "b_ja">> >>] >>

\* /line 236 of services/AIService.ts/
educationPattern ==
  << [kind |-> "rep", capture |-> TRUE, class |-> "dot", min |-> 1, max |-> -1, lazy |-> TRUE,
       alts |-> <<>>],
     [kind |-> "rep", capture |-> FALSE, class |-> "space", min |-> 1, max |-> -1, lazy |-> FALSE,
       alts |-> <<>>],
     [kind |-> "alt", capture |-> TRUE, class |-> "none", min |-> 0, max |-> 0, lazy |-> FALSE,
       alts |-> << <<"b_pa", "b_dda", "s_nukta", "s_i">>, <<"b_a", "b_dha", "s_virama", "b_ya", "b_ya", "s_nukta", "b_na">> >>] >>

\* the words the facts are built of
WordI == <<"b_aa", "b_ma", "s_i">>
WordMy == <<"b_aa", "b_ma", "s_aa", "b_ra">>
WordName == <<"b_na", "s_aa", "b_ma">>
WordAge == <<"b_ba", "b_ya", "s_nukta", "b_sa">>
WordYears == <<" ", "b_ba", "b_cha", "b_ra">>
WordHome == <<"b_ba", "s_aa", "b_sa", "s_aa">>
WordLive == <<"b_tha", "s_aa", "b_ka", "s_i">>
WordHusband == <<"b_sa", "s_virama", "b_ba", "s_aa", "b_ma", "s_ii">>
WordProfession == <<"b_pa", "s_e", "b_sha", "s_aa">>
WordStudies == <<"b_pa", "b_dda", "s_nukta", "s_aa", "b_sha", "s_o", "b_na", "s_aa">>
WordMaritalStatus == <<"b_ba", "s_ai", "b_ba", "s_aa", "b_ha", "s_i", "b_ka", " ", "b_a", "b_ba", "b_sa", "s_virama", "b_tha", "s_aa">>
WordMarried == <<"b_ba", "s_i", "b_ba", "s_aa", "b_ha", "s_i", "b_ta", "s_aa">>

\* the facts of one trimmed sentence, in the order the code pushes them; the
\* facts of this service have no context
ContextualFactsOf(trimmed) ==
  LET nameMatch == MatchWordAfter(trimmed, nameLiteral)
      ageMatch == match(trimmed, agePattern)
      addressMatch == MatchWordAfter(trimmed, addressLiteral)
      locationMatch == MatchWordAfter(trimmed, locationLiteral)
      occupationMatch == match(trimmed, occupationPattern)
      educationMatch == match(trimmed, educationPattern)
  IN  (IF nameMatch = <<>> THEN <<>>
       ELSE << Fact("name", WordI, WordName, trim(nameMatch[1][1]), StatedConfidence, <<>>) >>)
      \o (IF ageMatch = <<>> THEN <<>>
          ELSE << Fact("general", WordMy, WordAge, ageMatch[1][1] \o WordYears,
                       StatedConfidence, <<>>) >>)
      \o (IF addressMatch = <<>> THEN <<>>
          ELSE << Fact("address", WordMy, WordHome, trim(addressMatch[1][1]),
                       StatedConfidence, <<>>) >>)
      \o (IF locationMatch = <<>> THEN <<>>
          ELSE << Fact("location", WordI, WordLive, trim(locationMatch[1][1]),
                       StatedConfidence, <<>>) >>)
      \o (IF occupationMatch = <<>> THEN <<>>
          ELSE << Fact("occupation", WordHusband, WordProfession,
                       trim(occupationMatch[1][1]), InferredConfidence, <<>>) >>)
      \o (IF educationMatch = <<>> THEN <<>>
          ELSE << Fact("education", WordI, WordStudies, trim(educationMatch[1][1]),
                       InferredConfidence, <<>>) >>)
      \o (IF Includes(trimmed, WordMarried)
          THEN << Fact("general", WordI, WordMaritalStatus, WordMarried,
                       StatedConfidence, <<>>) >>
          ELSE <<>>)

RECURSIVE ContextualFactsOfSentences(_)
ContextualFactsOfSentences(sentences) ==
  IF sentences = <<>> THEN <<>>
  ELSE ContextualFactsOf(trim(Head(sentences)))
       \o ContextualFactsOfSentences(Tail(sentences))

\* extractContextualFacts: the facts of every non-blank sentence, in order
extractContextualFacts(content) ==
  ContextualFactsOfSentences(
    SelectSeq(SplitOn(content, {"o_danda", "!", "\n"}, <<>>), LAMBDA s : Len(trim(s)) > 0))

(***************************************************************************)
(* generateSmartResponse of AIServiceClass (services/AIService.ts)         *)
(***************************************************************************)
\* content.substring(0, 300)
ExcerptLimit == 300

\* ' সম্পর্কে: ', which follows the title
AboutInfix == <<" ", "b_sa", "b_ma", "s_virama", "b_pa", "b_ra", "s_virama", "b_ka", "s_e", ":", " ">>
Ellipsis == <<".", ".", ".">>

\* content.length >= 300, in the place of content.length > 300
IsCutAtLimit(content) == Len(content) >= ExcerptLimit

\* content.length > 300
IsCut(content) == Len(content) > ExcerptLimit

\* generateSmartResponse, given the title and the content of knowledgeItems[0]
chatGenerateSmartResponse(title, content) ==
  title \o AboutInfix \o Slice(content, ExcerptLimit)
    \o (IF IsCut(content) THEN Ellipsis ELSE <<>>)

(***************************************************************************)
(* Harness of the remaining pure functions: a call is drawn, then made     *)
(***************************************************************************)
MaxFactPieces == 2   \* a text facts are extracted from is made of at most this many pieces

\* pieces of a text: a name statement, a name, an age, an occupation word, a
\* birth place, a sentence end, a birth year and a birth question
FactPieces ==
  { <<"b_aa", "b_ma", "s_aa", "b_ra", " ", "b_na", "s_aa", "b_ma", " ">>,
    <<"b_ra", "b_ha", "s_i", "b_ma">>,
    <<"b_ba", "b_ya", "s_nukta", "b_sa", " ", "2", "5">>,
    <<" ", "b_ka", "s_aa", "b_ja">>,
    <<"b_ddha", "s_aa", "b_ka", "s_aa", "b_ta", "s_e", " ", "b_ja", "b_na", "s_virama", "b_ma">>,
    <<"o_danda">>,
    <<"1", "9", "5", "0", " ", "b_sa", "s_aa", "b_la", "s_e", " ", "b_ja", "b_na", "s_virama", "b_ma">>,
    <<"b_ka", "s_o", "b_tha", "s_aa", "b_ya", "s_nukta", " ", "b_ja", "b_na", "s_virama", "b_ma">> }

RECURSIVE FactTexts(_)
FactTexts(n) ==
  IF n = 0 THEN { <<>> }
  ELSE LET shorter == FactTexts(n - 1)
       IN  shorter \cup { text \o piece : text \in shorter, piece \in FactPieces }

\* the call made
MakeCall(name, args) ==
  IF name = "extractAdvancedFacts" THEN extractAdvancedFacts(args[1])
  ELSE IF name = "extractContextualFacts" THEN extractContextualFacts(args[1])
  ELSE IF name = "generateFactBasedResponse" THEN generateFactBasedResponse(args[1], args[2])
  ELSE IF name = "findBestMatches" THEN NarrowByTopic(args[1], args[2])
  ELSE IF name = "generateSmartResponse" THEN chatGenerateSmartResponse(args[1], args[2])
  ELSE analyzeQuestionIntent(args[1])

Call ==
  /\ callResult = <<>>
  /\ callName # "none"
  /\ callResult' = << MakeCall(callName, callArgs) >>
  /\ UNCHANGED <<callName, callArgs, callFrame>>

FactsInit ==
  /\ callName \in {"extractAdvancedFacts", "extractContextualFacts", "analyzeQuestionIntent"}
  /\ callArgs \in { <<text>> : text \in FactTexts(MaxFactPieces) }
  /\ callResult = <<>>
  /\ NormIdle /\ SimIdle /\ AIIdle /\ EnhancedIdle /\ IntentIdle /\ ChatIdle /\ VoiceIdle

FactsNext == Call

SpecFacts == FactsInit /\ [][FactsNext]_vars

\* the confidences of what a call returned
ReturnedConfidences ==
  IF callResult = <<>> THEN {}
  ELSE IF callName = "analyzeQuestionIntent" THEN { callResult[1].confidence }
  ELSE { callResult[1][i].confidence : i \in 1..Len(callResult[1]) }

\* C21: every fact extractAdvancedFacts or extractContextualFacts returns and
\* every intent analyzeQuestionIntent returns has a confidence between 0 and 1.
C21_ConfidenceRange ==
  callName \in {"extractAdvancedFacts", "extractContextualFacts", "analyzeQuestionIntent"} =>
    \A confidence \in ReturnedConfidences : 0 <= confidence /\ confidence <= Scale

\* a text gave a fact of the least confident birth pattern and a time fact
C21_Witness ==
  /\ callName = "extractAdvancedFacts"
  /\ BirthConfidence(2) \in ReturnedConfidences
  /\ TimeConfidence \in ReturnedConfidences

(***************************************************************************)
(* generateFactBasedResponse called on lists of facts                      *)
(***************************************************************************)
MaxFacts == 3   \* a list of facts holds at most this many facts

\* a fact of each kind and confidence extractAdvancedFacts produces
SampleFacts ==
  { Fact("location", DefaultSubject, WasBorn, <<"A">>, BirthConfidence(0), BirthPlaceContext),
    Fact("location", DefaultSubject, WasBorn, <<"B">>, BirthConfidence(1), BirthPlaceContext),
    Fact("location", DefaultSubject, WasBorn, <<"C">>, BirthConfidence(2), BirthPlaceContext),
    Fact("relationship", DefaultSubject, NameSuffix, <<"D">>, RelationshipConfidence,
         FamilyContext),
    Fact("time", DefaultSubject, InYear, <<"E">>, TimeConfidence, TimeContext) }

RECURSIVE FactLists(_)
FactLists(n) ==
  IF n = 0 THEN { <<>> }
  ELSE LET shorter == FactLists(n - 1)
       IN  shorter \cup { Append(list, fact) : list \in shorter, fact \in SampleFacts }

\* a where question, a when question, a who question and another one
FactQuestions ==
  { <<"b_ka", "s_o", "b_tha", "s_aa", "b_ya", "s_nukta", " ", "b_ja", "b_na", "s_virama", "b_ma">>, <<"b_ka", "b_kha", "b_na">>, <<"b_na", "s_aa", "b_ma", " ", "b_ka", "s_i">>, <<"s", "u", "n">> }

BestFactInit ==
  /\ callName = "generateFactBasedResponse"
  /\ callArgs \in { <<question, facts>> :
                      question \in FactQuestions, facts \in FactLists(MaxFacts) }
  /\ callResult = <<>>
  /\ NormIdle /\ SimIdle /\ AIIdle /\ EnhancedIdle /\ IntentIdle /\ ChatIdle /\ VoiceIdle

BestFactNext == Call

SpecBestFact == BestFactInit /\ [][BestFactNext]_vars

\* the facts a generateFactBasedResponse call was given
GivenFacts == callArgs[2]

\* the first of the given facts no other given fact is more confident than
FirstMostConfident ==
  LET most == { i \in 1..Len(GivenFacts) :
                  \A j \in 1..Len(GivenFacts) :
                     GivenFacts[j].confidence <= GivenFacts[i].confidence }
  IN  GivenFacts[CHOOSE i \in most : \A j \in most : i <= j]

\* C23: generateFactBasedResponse on a non-empty list renders the fact of the
\* highest confidence, the first extracted one among equals.
C23_BestFactSelection ==
  (callName = "generateFactBasedResponse" /\ callResult # <<>> /\ GivenFacts # <<>>) =>
     /\ callResult[1].template # "none"
     /\ callResult[1].fact = << FirstMostConfident >>

\* two different facts share the highest confidence and a less confident one
\* stands before them
C23_Witness ==
  /\ callName = "generateFactBasedResponse" /\ callResult # <<>>
  /\ Len(GivenFacts) = 3
  /\ GivenFacts[1].confidence < GivenFacts[2].confidence
  /\ GivenFacts[2].confidence = GivenFacts[3].confidence
  /\ GivenFacts[2] # GivenFacts[3]
  /\ callResult[1].fact = << GivenFacts[2] >>

(***************************************************************************)
(* The topic narrowing of findBestMatches on lists of index results        *)
(***************************************************************************)
MaxHits == 4   \* the index returns at most this many results

\* the titles of the items found and the topics of the conversation
HitTitles == { <<"s", "u", "n">>, <<"s", "e", "a">> }
Topics == { <<>>, <<"s", "u", "n">>, <<"s", "k", "y">> }

\* the scores of the results: below, at and above the topic threshold
HitScores == { GoodScore, TopicThreshold, PoorScore }

\* the lists of results the index may return: best score first
RECURSIVE FuseResultLists(_)
FuseResultLists(n) ==
  IF n = 0 THEN { <<>> }
  ELSE LET shorter == FuseResultLists(n - 1)
       IN  shorter \cup
           { Append(list, [item |-> [id |-> Len(list), title |-> title], score |-> score]) :
               list \in { l \in shorter : Len(l) = n - 1 },
               title \in HitTitles,
               score \in HitScores }

NarrowInit ==
  /\ callName = "findBestMatches"
  /\ callArgs \in { <<fuseResults, currentTopic>> :
                      fuseResults \in { list \in FuseResultLists(MaxHits) :
                                          \A i \in 1..(Len(list) - 1) :
                                             list[i].score <= list[i + 1].score },
                      currentTopic \in Topics }
  /\ callResult = <<>>
  /\ NormIdle /\ SimIdle /\ AIIdle /\ EnhancedIdle /\ IntentIdle /\ ChatIdle /\ VoiceIdle

NarrowNext == Call

SpecNarrow == NarrowInit /\ [][NarrowNext]_vars

\* the index results of the call, and those about the topic or of a score
\* below 0.3
IndexResults == callArgs[1]

Qualifying ==
  SelectSeq(IndexResults,
            LAMBDA result : \/ Includes(result.item.title, callArgs[2])
                            \/ result.score < TopicThreshold)

\* the items of the first 3 results of a list
TopThree(results) ==
  [i \in 1..Min2(Len(results), 3) |-> results[i].item]

\* C24: findBestMatches returns at most 3 items in the order of the index
\* results: with a current topic, the first results about the topic or of a
\* score below 0.3 when there is one, else the first results; without a
\* current topic, the first results.
C24_TopicNarrowing ==
  (callName = "findBestMatches" /\ callResult # <<>>) =>
     /\ Len(callResult[1]) <= 3
     /\ callArgs[2] # <<>> /\ Qualifying # <<>> => callResult[1] = TopThree(Qualifying)
     /\ callArgs[2] # <<>> /\ Qualifying = <<>> => callResult[1] = TopThree(IndexResults)
     /\ callArgs[2] = <<>> => callResult[1] = TopThree(IndexResults)

\* a topic is set, no result qualifies, and the first 3 of 4 results come back
C24_Witness ==
  /\ callName = "findBestMatches" /\ callResult # <<>>
  /\ callArgs[2] # <<>>
  /\ Len(IndexResults) = 4
  /\ Qualifying = <<>>
  /\ Len(callResult[1]) = 3

(***************************************************************************)
(* generateSmartResponse called on contents around 300 characters          *)
(***************************************************************************)
MaxOver == 2   \* a content is at most this many characters longer than the excerpt

\* a content: a run of a's and an end
Filled(n, end) == [i \in 1..n |-> "a"] \o end

ExcerptContents ==
  { Filled(n, end) :
      n \in (0..3) \cup ((ExcerptLimit - 5)..(ExcerptLimit + MaxOver)),
      end \in { <<>>, <<"b">>, <<".", ".", ".">> } }

ExcerptTitles == { <<"s", "u", "n">>, <<"s", "e", "a", ".", ".", ".">> }

ExcerptInit ==
  /\ callName = "generateSmartResponse"
  /\ callArgs \in { <<title, content>> :
                      title \in ExcerptTitles, content \in ExcerptContents }
  /\ callResult = <<>>
  /\ NormIdle /\ SimIdle /\ AIIdle /\ EnhancedIdle /\ IntentIdle /\ ChatIdle /\ VoiceIdle

ExcerptNext == Call

SpecExcerpt == ExcerptInit /\ [][ExcerptNext]_vars

\* the text begins (ends) with the given text
StartsWith(text, start) ==
  Len(start) <= Len(text) /\ SubSeq(text, 1, Len(start)) = start

EndsWith(text, end) ==
  Len(end) <= Len(text) /\ SubSeq(text, Len(text) - Len(end) + 1, Len(text)) = end

\* what follows the title prefix in the response
AfterPrefix ==
  SubSeq(callResult[1], Len(callArgs[1] \o AboutInfix) + 1, Len(callResult[1]))

SmartResponseMade == callName = "generateSmartResponse" /\ callResult # <<>>

\* C25 as stated: the response is the title prefix followed by at most the
\* first 300 characters of the content, and it ends with '...' exactly when the
\* content is longer than 300 characters.
C25_ExcerptEndsWithEllipsis ==
  SmartResponseMade =>
     /\ StartsWith(callResult[1], callArgs[1] \o AboutInfix)
     /\ EndsWith(callResult[1], Ellipsis) <=> Len(callArgs[2]) > ExcerptLimit

\* C25: the response is the title prefix followed by the whole content when
\* the content has at most 300 characters, and by its first 300 characters and
\* an appended '...' when it is longer.
C25_ExcerptTruncation ==
  SmartResponseMade =>
     /\ StartsWith(callResult[1], callArgs[1] \o AboutInfix)
     /\ Len(callArgs[2]) <= ExcerptLimit => AfterPrefix = callArgs[2]
     /\ Len(callArgs[2]) > ExcerptLimit =>
          AfterPrefix = SubSeq(callArgs[2], 1, ExcerptLimit) \o Ellipsis

\* a content longer than 300 characters, answered by its first 300 characters
\* and the appended ellipsis
C25_Witness ==
  /\ SmartResponseMade
  /\ Len(callArgs[2]) > ExcerptLimit
  /\ Len(AfterPrefix) = ExcerptLimit + Len(Ellipsis)
  /\ EndsWith(callResult[1], Ellipsis)

(***************************************************************************)
(* What a delete removes                                                   *)
(***************************************************************************)
\* the collection without its i-th item
WithoutIndex(collection, i) ==
  SubSeq(collection, 1, i - 1) \o SubSeq(collection, i + 1, Len(collection))

\* what the claim allows a delete of id to leave of the collection
RemovesExactlyOne(before, after, id) ==
  IF \E i \in 1..Len(before) : before[i].id = id
  THEN \E i \in 1..Len(before) : before[i].id = id /\ after = WithoutIndex(before, i)
  ELSE after = before

\* C27: deleteKnowledge(id) and deleteQuestionAnswer(id) for an id present in
\* the collection remove exactly one item and leave every other item present,
\* unchanged and in the same order; for an absent id they leave the
\* collection unchanged.
C27_DeleteRemovesOne ==
  [][ /\ \A id \in 0..MaxClock :
           DeleteKnowledge(id) => RemovesExactlyOne(knowledgeBase, knowledgeBase', id)
      /\ \A id \in 0..MaxClock :
           DeleteQuestionAnswer(id) =>
             RemovesExactlyOne(questionAnswerPairs, questionAnswerPairs', id) ]_vars

(***************************************************************************)
(* Both collections of the service exercised together                      *)
(***************************************************************************)
BothKnowledgeInputs ==
  { [title |-> <<"s", "e", "a">>, content |-> <<"s", "a", "l", "t">>] }

BothQAInputs ==
  { [question |-> <<"s", "u", "n", " ">>, answer |-> <<"h", "o", "t">>] }

BothNext ==
  \/ Tick
  \/ \E input \in BothKnowledgeInputs : LearnFromText(input.title, input.content)
  \/ \E id \in 0..MaxClock : DeleteKnowledge(id)
  \/ ClearKnowledgeBase
  \/ \E input \in BothQAInputs : AddQuestionAnswer(input.question, input.answer)
  \/ \E id \in 0..MaxClock : DeleteQuestionAnswer(id)
  \/ ClearQuestionAnswers

BothInit == AIIdle /\ EnhancedIdle /\ NormIdle /\ SimIdle /\ IntentIdle /\ OthersIdle

SpecBoth == BothInit /\ [][BothNext]_vars

\* a step of learnFromText, deleteKnowledge or clearKnowledgeBase
KnowledgeStep ==
  \/ \E input \in BothKnowledgeInputs : LearnFromText(input.title, input.content)
  \/ \E id \in 0..MaxClock : DeleteKnowledge(id)
  \/ ClearKnowledgeBase

\* a step of addQuestionAnswer, deleteQuestionAnswer or clearQuestionAnswers
QuestionAnswerStep ==
  \/ \E input \in BothQAInputs : AddQuestionAnswer(input.question, input.answer)
  \/ \E id \in 0..MaxClock : DeleteQuestionAnswer(id)
  \/ ClearQuestionAnswers

\* C28: learnFromText, deleteKnowledge and clearKnowledgeBase leave the
\* question-answer collection and its index unchanged, and addQuestionAnswer,
\* deleteQuestionAnswer and clearQuestionAnswers leave the knowledge
\* collection and its index unchanged.
C28_CollectionsIndependent ==
  [][ /\ KnowledgeStep => UNCHANGED <<questionAnswerPairs, qaPairsFuse>>
      /\ QuestionAnswerStep => UNCHANGED <<knowledgeBase, fuseInstance>> ]_vars

\* the knowledge collection was cleared of its items while the
\* question-answer collection held pairs
C28_Witness ==
  /\ aiLast.op = "clearKnowledgeBase"
  /\ aiLast.removed > 0
  /\ Len(questionAnswerPairs) > 0
  /\ qaPairsFuse # NoFuse

(***************************************************************************)
(* The conversation context of AIServiceClass (services/AIService.ts)      *)
(***************************************************************************)
\* messages.length > 10, messages.slice(-10)
MessageLimit == 10

\* a message of the context; its timestamp is not followed
Message(role, content) == [role |-> role, content |-> content]

\* messages.slice(0, 10), in the place of messages.slice(-10)
KeepOldestMessages(messages) ==
  IF Len(messages) > MessageLimit THEN SubSeq(messages, 1, MessageLimit) ELSE messages

\* if (messages.length > 10) messages = messages.slice(-10)
KeepLastMessages(messages) ==
  IF Len(messages) > MessageLimit
  THEN SubSeq(messages, Len(messages) - MessageLimit + 1, Len(messages))
  ELSE messages

\* the context with no message; its id and lastUpdated are not followed
EmptyChatContext == [messages |-> <<>>]

\* addToConversationContext: the context it leaves (and saves)
addToConversationContext(context, role, content) ==
  [context EXCEPT !.messages = KeepLastMessages(Append(@, Message(role, content)))]

\* loadConversationContext: stored is <<>> when the key is absent, else the
\* parsed value in a tuple; a value without a messages list makes map() throw
chatLoadConversationContext(stored) ==
  IF stored = <<>> THEN EmptyChatContext
  ELSE IF ~Has(stored[1], "messages") THEN EmptyChatContext
  ELSE stored[1]

ChatHello == <<"b_ha", "s_virama", "b_ya", "s_aa", "b_la", "s_o">>
ChatNamaskar == <<"b_na", "b_ma", "b_sa", "s_virama", "b_ka", "s_aa", "b_ra">>
ChatGreeting ==
  <<"b_na", "b_ma", "b_sa", "s_virama", "b_ka", "s_aa", "b_ra", "!", " ", "b_aa", "b_ma", "s_i", " ", "b_aa", "b_pa", "b_na", "s_aa", "b_ra", " ", "A", "I", " ", "b_sa", "b_ha", "s_aa", "b_ya", "s_nukta", "b_ka", "o_danda", " ", "b_aa", "b_pa", "b_na", "s_i", " ", "b_aa", "b_ma", "s_aa", "b_ka", "s_e", " ", "b_ya", "s_e", "b_ka", "s_o", "b_na", "s_o", " ", "b_pa", "s_virama", "b_ra", "b_sha", "s_virama", "b_na", " ", "b_ka", "b_ra", "b_ta", "s_e", " ", "b_pa", "s_aa", "b_ra", "s_e", "b_na", "o_danda">>
ChatApology ==
  <<"b_da", "s_u", "s_visarga", "b_kha", "s_i", "b_ta", ",", " ", "b_aa", "b_ma", "s_aa", "b_ra", " ", "b_ka", "s_aa", "b_cha", "s_e", " ", "b_e", "b_i", " ", "b_ba", "s_i", "b_ssa", "b_ya", "s_nukta", "s_e", " ", "b_ta", "b_tha", "s_virama", "b_ya", " ", "b_na", "s_e", "b_i", "o_danda", " ", "b_aa", "b_pa", "b_na", "s_i", " ", "b_ca", "s_aa", "b_i", "b_la", "s_e", " ", "b_aa", "b_ma", "s_aa", "b_ka", "s_e", " ", "b_e", "b_i", " ", "b_ba", "s_i", "b_ssa", "b_ya", "s_nukta", "s_e", " ", "b_sha", "s_e", "b_kha", "s_aa", "b_ta", "s_e", " ", "b_pa", "s_aa", "b_ra", "s_e", "b_na", "o_danda">>

\* generateGeneralResponse
chatGenerateGeneralResponse(question) ==
  IF Includes(toLowerCase(question), ChatHello) \/ Includes(toLowerCase(question), ChatNamaskar)
  THEN ChatGreeting
  ELSE ChatApology

\* the knowledge item findBestMatches may put first
ChatKnowledgeTitle == <<"s", "u", "n">>
ChatKnowledgeContent == <<"h", "o", "t">>

\* The answers generateResponse may give to the question.  The knowledge base
\* of this service is not followed: the question may find nothing (general
\* response) or find the item above (smart response).
ChatAnswers(question) ==
  { chatGenerateGeneralResponse(question),
    chatGenerateSmartResponse(ChatKnowledgeTitle, ChatKnowledgeContent) }

\* generateResponse(question), returning answer
ChatGenerateResponse(question) ==
  /\ chatContext # <<>>
  /\ \E answer \in ChatAnswers(question) :
       /\ chatContext' =
            addToConversationContext(
              addToConversationContext(chatContext, "user", question),
              "assistant", answer)
       /\ chatLast' = [op |-> "generateResponse", question |-> question, answer |-> answer]
  /\ chatStored' = << chatContext' >>
  /\ UNCHANGED chatFrame

ClearConversationContext ==
  /\ chatContext # <<>>
  /\ chatContext' = EmptyChatContext
  /\ chatStored' = << chatContext' >>
  /\ chatLast' = [op |-> "clearConversationContext", question |-> <<>>, answer |-> <<>>]
  /\ UNCHANGED chatFrame

\* the messages an earlier run left in storage
OldMessage(i) ==
  Message(IF i % 2 = 1 THEN "user" ELSE "assistant", <<"o", "l", "d", ToString(i)>>)

StoredMessageCounts == {0, 8, 10}

\* what localStorage holds under 'conversation-context' when the service is
\* constructed: nothing, a value that is no context, or a saved context
StoredChats ==
  { <<>>, << [id |-> 0] >> }
    \cup { << [messages |-> [i \in 1..n |-> OldMessage(i)]] >> : n \in StoredMessageCounts }

ChatQuestions == { ChatHello, <<"s", "u", "n", " ", "?">> }

ChatInit ==
  /\ chatStored \in StoredChats
  /\ chatContext = chatLoadConversationContext(chatStored)
  /\ chatLast = <<>>
  /\ NormIdle /\ SimIdle /\ AIIdle /\ EnhancedIdle /\ IntentIdle /\ CallIdle /\ VoiceIdle

ChatNext ==
  \/ \E question \in ChatQuestions : ChatGenerateResponse(question)
  \/ ClearConversationContext

SpecChat == ChatInit /\ [][ChatNext]_vars

\* the last n items of the list
LastOf(list, n) ==
  IF Len(list) > n THEN SubSeq(list, Len(list) - n + 1, Len(list)) ELSE list

\* the log holds at most 10 messages
LogBounded == chatContext # <<>> => Len(chatContext.messages) <= MessageLimit

\* C29: the context holds at most 10 messages, the most recent ones in order:
\* a generateResponse call leaves the last 10 of the earlier messages followed
\* by one 'user' message with the question and one 'assistant' message with
\* the returned answer, and clearConversationContext leaves none.
C29_BoundedMessageLog ==
  [][ /\ LogBounded'
      /\ \A question \in ChatQuestions :
           ChatGenerateResponse(question) =>
             /\ chatLast'.question = question
             /\ chatContext'.messages =
                  LastOf(chatContext.messages
                           \o << Message("user", question),
                                 Message("assistant", chatLast'.answer) >>,
                         MessageLimit)
      /\ ClearConversationContext => chatContext'.messages = <<>> ]_vars

\* ten messages were held, a question was answered, and the two oldest
\* messages made room for the question and its answer
C29_Witness ==
  /\ chatLast # <<>>
  /\ chatLast.op = "generateResponse"
  /\ Len(chatContext.messages) = MessageLimit
  /\ chatContext.messages[1] = OldMessage(3)
  /\ chatContext.messages[MessageLimit - 1] = Message("user", chatLast.question)
  /\ chatContext.messages[MessageLimit] = Message("assistant", chatLast.answer)

(***************************************************************************)
(* The record button of the VoiceMessage component                         *)
(***************************************************************************)
MaxPresses == 3   \* the button is pressed at most this many times

\* the record button is rendered only while no recording is held
ButtonShown == audioBlob = "null"

\* onMouseDown / onTouchStart: startRecording up to its await of getUserMedia
Press ==
  /\ ~pressed
  /\ ButtonShown
  /\ Len(recorders) + pendingGrants < MaxPresses
  /\ pressed' = TRUE
  /\ pendingGrants' = pendingGrants + 1
  /\ UNCHANGED <<isRecording, audioBlob, mediaRecorderRef, recorders>>
  /\ UNCHANGED voiceFrame

\* getUserMedia resolves: startRecording from the await to its end
Grant ==
  /\ pendingGrants > 0
  /\ pendingGrants' = pendingGrants - 1
  /\ recorders' = Append(recorders, "recording")
  /\ mediaRecorderRef' = Len(recorders')
  /\ isRecording' = TRUE
  /\ UNCHANGED <<pressed, audioBlob>>
  /\ UNCHANGED voiceFrame

\* getUserMedia rejects: the catch block of startRecording shows a toast
Deny ==
  /\ pendingGrants > 0
  /\ pendingGrants' = pendingGrants - 1
  /\ UNCHANGED <<pressed, isRecording, audioBlob, mediaRecorderRef, recorders>>
  /\ UNCHANGED voiceFrame

\* stopRecording.  stop() on a recorder that is not recording either throws
\* (InvalidStateError, the handler ends there) or does nothing, as the
\* browser has it.
stopRecording ==
  IF mediaRecorderRef = 0
  THEN UNCHANGED <<isRecording, recorders>>
  ELSE IF recorders[mediaRecorderRef] = "recording"
       THEN /\ recorders' = [recorders EXCEPT ![mediaRecorderRef] = "stopping"]
            /\ isRecording' = FALSE
       ELSE /\ UNCHANGED recorders
            /\ \/ UNCHANGED isRecording
               \/ isRecording' = FALSE

\* onMouseUp / onTouchEnd; a button no longer rendered has no handler
Release ==
  /\ pressed
  /\ pressed' = FALSE
  /\ IF ButtonShown THEN stopRecording ELSE UNCHANGED <<isRecording, recorders>>
  /\ UNCHANGED <<audioBlob, mediaRecorderRef, pendingGrants>>
  /\ UNCHANGED voiceFrame

\* the stop event of a stopped recorder: onstop sets the recording
OnStop ==
  /\ \E r \in 1..Len(recorders) :
       /\ recorders[r] = "stopping"
       /\ recorders' = [recorders EXCEPT ![r] = "inactive"]
  /\ audioBlob' = "blob"
  /\ UNCHANGED <<pressed, isRecording, mediaRecorderRef, pendingGrants>>
  /\ UNCHANGED voiceFrame

\* the recording is sent or cancelled: setAudioBlob(null)
DropRecording ==
  /\ audioBlob = "blob"
  /\ audioBlob' = "null"
  /\ UNCHANGED <<pressed, isRecording, mediaRecorderRef, recorders, pendingGrants>>
  /\ UNCHANGED voiceFrame

VoiceInit ==
  /\ VoiceIdle
  /\ NormIdle /\ SimIdle /\ AIIdle /\ EnhancedIdle /\ IntentIdle /\ CallIdle /\ ChatIdle

VoiceNext == Press \/ Grant \/ Deny \/ Release \/ OnStop \/ DropRecording

SpecVoice == VoiceInit /\ [][VoiceNext]_vars

RecorderRunning == \E r \in 1..Len(recorders) : recorders[r] = "recording"

\* C30: once the button is released and every microphone request has
\* resolved, no recorder is running and isRecording is false.
C30_ReleaseEndsRecording ==
  (~pressed /\ pendingGrants = 0) => (~RecorderRunning /\ ~isRecording)

(***************************************************************************)
(* Follow-up questions over several sessions of the enhanced service       *)
(***************************************************************************)
MaxFollowUps == 4   \* the history is followed up to this many questions

\* a question with the continuation word 'আর' and one without, both naming
\* the stored item
FollowUpQuestions ==
  { <<"b_aa", "b_ra", " ", "b_ra", "b_ha", "s_i", "b_ma">>, ContextQuestion }

AskFollowUp(question) ==
  /\ Len(conversationContext.previousQuestions) < MaxFollowUps
  /\ \E outcome \in enhancedGenerateResponse(question, enhancedFuseInstance,
                                              conversationContext, now) :
       /\ conversationContext' = outcome.context
       /\ storedContext' = IF outcome.saved THEN << outcome.context >> ELSE storedContext
       /\ enhancedLast' = EnhancedOperation("generateResponse", question, <<>>, 0, 0,
                                            << outcome.response >>)
  /\ UNCHANGED <<enhancedKnowledgeBase, enhancedFuseInstance, enhancedStoredKnowledge>>
  /\ UNCHANGED enhancedFrame

\* the service constructed over the stored item and no stored context
FollowUpInit ==
  /\ AIIdle /\ NormIdle /\ SimIdle /\ IntentIdle /\ OthersIdle
  /\ enhancedStoredKnowledge = ContextKnowledge
  /\ storedContext = <<>>
  /\ enhancedKnowledgeBase = enhancedLoadKnowledgeFromStorage(enhancedStoredKnowledge, <<>>)
  /\ conversationContext = loadConversationContext(storedContext, EmptyContext)
  /\ enhancedFuseInstance = enhancedUpdateFuseInstance(enhancedKnowledgeBase, NoFuse)
  /\ enhancedLast = EnhancedOperation("constructor", <<>>, <<>>, 0, 0, NoResponse)

\* questions are asked, and the page is loaded again (a new session)
FollowUpNext ==
  \/ \E question \in FollowUpQuestions : AskFollowUp(question)
  \/ EnhancedConstruct

SpecFollowUp == FollowUpInit /\ [][FollowUpNext]_vars

\* the answer of the last call carries the current-topic lead-in
LeadInGiven ==
  /\ enhancedLast.op = "generateResponse"
  /\ enhancedLast.response[1].kind = "knowledge"
  /\ enhancedLast.response[1].answer[1].followUp # <<>>

\* the call is the first one the service object answers
FirstOfSession == enhancedLast.op = "constructor"

\* C26: a query gets the current-topic lead-in only if it contains a
\* continuation word and the history holds a question asked before it, and
\* the first query of a session never gets it.
C26_FollowUpDetection ==
  [][ \A question \in FollowUpQuestions :
        (AskFollowUp(question) /\ LeadInGiven') =>
          /\ IncludesAny(question, followUpWords)
          /\ Len(conversationContext.previousQuestions) > 0
          /\ ~FirstOfSession ]_vars

\* The lead-in is given only to a query with a continuation word, asked when
\* the history already held a question
LeadInNeedsEarlierQuestion ==
  [][ \A question \in FollowUpQuestions :
        (AskFollowUp(question) /\ LeadInGiven') =>
          /\ IncludesAny(question, followUpWords)
          /\ Len(conversationContext.previousQuestions) > 0 ]_vars

(***************************************************************************)
(* The forms of LearningInterface and BulkQAInput in front of the service  *)
(***************************************************************************)
\* text === '', in the place of !text.trim()
IsEmptyText(text) == text = <<>>

\* !text.trim()
IsBlank(text) == trim(text) = <<>>

\* a submission the form turned down: a toast is shown, nothing else
Rejected(op, first, second) ==
  /\ aiLast' = Operation(op, first, second, now, 0, <<"rejected">>)
  /\ UNCHANGED <<knowledgeBase, questionAnswerPairs, fuseInstance, qaPairsFuse,
                 storedKnowledge, storedQuestionAnswers, now>>
  /\ UNCHANGED aiFrame

handleLearnFromText(title, content) ==
  IF IsBlank(content) \/ IsBlank(title)
  THEN Rejected("handleLearnFromText", title, content)
  ELSE LearnFromText(title, content)

handleAddQuestionAnswer(question, answer) ==
  IF IsBlank(question) \/ IsBlank(answer)
  THEN Rejected("handleAddQuestionAnswer", question, answer)
  ELSE AddQuestionAnswer(question, answer)

\* text.split(/\n\s*\n/): a separator runs from a line feed to the last line
\* feed of the white space that follows it
RECURSIVE SectionsFrom(_, _)
SectionsFrom(text, current) ==
  IF text = <<>> THEN <<current>>
  ELSE LET rest == Tail(text)
           run == Len(rest) - Len(TrimStart(rest))
           feeds == { k \in 1..run : rest[k] = "\n" }
           last == CHOOSE k \in feeds : \A j \in feeds : j <= k
       IN  IF Head(text) = "\n" /\ feeds # {}
           THEN <<current>> \o SectionsFrom(SubSeq(rest, last + 1, Len(rest)), <<>>)
           ELSE SectionsFrom(rest, Append(current, Head(text)))

\* section.split('\n').map(line => line.trim()).filter(line => line)
LinesOf(section) ==
  LET pieces == SplitOn(section, {"\n"}, <<>>)
  IN  SelectSeq([i \in 1..Len(pieces) |-> trim(pieces[i])], LAMBDA line : line # <<>>)

\* /^(Q|প্রশ্ন|প্র):\s*/i and /^(A|উত্তর|উ):\s*/i
QuestionPrefixes == { <<"Q">>, <<"q">>, <<"b_pa", "s_virama", "b_ra", "b_sha", "s_virama", "b_na">>, <<"b_pa", "s_virama", "b_ra">> }
AnswerPrefixes == { <<"A">>, <<"a">>, <<"b_u", "b_ta", "s_virama", "b_ta", "b_ra">>, <<"b_u">> }

HasPrefix(line, prefixes) ==
  \E prefix \in prefixes :
    Len(line) > Len(prefix) /\ SubSeq(line, 1, Len(prefix) + 1) = Append(prefix, ":")

\* line.replace(pattern, '').trim()
StripPrefix(line, prefixes) ==
  IF HasPrefix(line, prefixes)
  THEN LET prefix == CHOOSE p \in prefixes :
                       Len(line) > Len(p) /\ SubSeq(line, 1, Len(p) + 1) = Append(p, ":")
       IN  trim(SubSeq(line, Len(prefix) + 2, Len(line)))
  ELSE trim(line)

\* lines.find(line => line.match(pattern)): the index of the line, 0 for none
FindLine(lines, prefixes) ==
  LET found == { i \in 1..Len(lines) : HasPrefix(lines[i], prefixes) }
  IN  IF found = {} THEN 0 ELSE CHOOSE i \in found : \A j \in found : i <= j

\* the pair parseBulkText takes from one section, in a list; none when the
\* section has fewer than two lines or a part is empty
PairOfSection(section) ==
  LET lines == LinesOf(section)
      q == FindLine(lines, QuestionPrefixes)
      a == FindLine(lines, AnswerPrefixes)
      question == IF q # 0 /\ a # 0 THEN StripPrefix(lines[q], QuestionPrefixes)
                  ELSE StripPrefix(lines[1], QuestionPrefixes)
      answer == IF q # 0 /\ a # 0 THEN StripPrefix(lines[a], AnswerPrefixes)
                ELSE StripPrefix(lines[2], AnswerPrefixes)
  IN  IF Len(lines) >= 2 /\ question # <<>> /\ answer # <<>>
      THEN << [question |-> question, answer |-> answer] >>
      ELSE <<>>

RECURSIVE PairsOfSections(_)
PairsOfSections(sections) ==
  IF sections = <<>> THEN <<>>
  ELSE PairOfSection(Head(sections)) \o PairsOfSections(Tail(sections))

parseBulkText(text) ==
  PairsOfSections(SelectSeq(SectionsFrom(text, <<>>), LAMBDA section : ~IsBlank(section)))

\* processBulkQA: every pair found is added, one addQuestionAnswer after the
\* other within the same millisecond
processBulkQA(bulkText) ==
  LET pairs == IF IsBlank(bulkText) THEN <<>> ELSE parseBulkText(bulkText)
  IN  IF pairs = <<>>
      THEN Rejected("processBulkQA", bulkText, <<>>)
      ELSE /\ Len(questionAnswerPairs) + Len(pairs) <= MaxQA
           /\ questionAnswerPairs' =
                questionAnswerPairs \o
                  [i \in 1..Len(pairs) |-> NewQAPair(pairs[i].question, pairs[i].answer, now)]
           /\ storedQuestionAnswers' = questionAnswerPairs'
           /\ qaPairsFuse' = updateQAFuseInstance(questionAnswerPairs', qaPairsFuse)
           /\ aiLast' = Operation("processBulkQA", bulkText, <<>>, now, 0, NoResponse)
           /\ UNCHANGED <<knowledgeBase, fuseInstance, storedKnowledge, now>>
           /\ UNCHANGED aiFrame

\* what is typed into the fields: nothing, white space only, and a text
FormTitles == { <<>>, <<" ">>, <<" ", "s", "u", "n">> }
FormContents == { <<>>, <<" ", "\n">>, <<"h", "o", "t", " ">> }
FormQuestions == { <<>>, <<"\t">>, <<"s", "u", "n", " ", "?">> }
FormAnswers == { <<>>, <<" ", " ">>, <<"h", "o", "t">> }

BulkTexts ==
  { <<>>,
    <<" ", "\n", " ">>,
    <<"Q", ":", " ", "s", "u", "n", "\n", "A", ":", " ", "h", "o", "t">>,
    <<"Q", ":", "\n", "A", ":", " ", "h", "o", "t">>,
    <<"q", ":", " ", "s", "u", "n", "\n", "a", ":", " ">>,
    <<"s", "u", "n", "\n", "h", "o", "t">>,
    <<"s", "u", "n">>,
    <<"s", "u", "n", "\n", " ", "\n", "h", "o", "t">>,
    <<"A", ":", " ", "h", "o", "t", "\n", "Q", ":", " ", "s", "u", "n", "\n", "\n", "\n", "s", "e", "a", "\n", "A", ":", "s", "a", "l", "t">>,
    <<"b_pa", "s_virama", "b_ra", "b_sha", "s_virama", "b_na", ":", " ", "s", "u", "n", "\n", "b_u", "b_ta", "s_virama", "b_ta", "b_ra", ":", " ", "h", "o", "t">>,
    <<"b_pa", "s_virama", "b_ra", ":", "\n", ":">>,
    <<"Q", ":", " ", "\n", " ", "\n", " ", " ", "\n", "A", ":", " ", "h", "o", "t", "\n", "s", "e", "a">> }

\* a run exercises one of the two collections
FormNext ==
  \/ /\ QuestionAnswersUntouched
     /\ \E title \in FormTitles, content \in FormContents :
          handleLearnFromText(title, content)
  \/ /\ KnowledgeUntouched
     /\ \/ \E question \in FormQuestions, answer \in FormAnswers :
             handleAddQuestionAnswer(question, answer)
        \/ \E bulkText \in BulkTexts : processBulkQA(bulkText)

FormInit == AIIdle /\ EnhancedIdle /\ NormIdle /\ SimIdle /\ IntentIdle /\ OthersIdle

SpecForm == FormInit /\ [][FormNext]_vars

\* no item and no pair holds an empty title, content, question or answer: the
\* service stores its arguments trimmed
NothingBlankStored ==
  /\ \A i \in 1..Len(knowledgeBase) :
       knowledgeBase[i].title # <<>> /\ knowledgeBase[i].content # <<>>
  /\ \A i \in 1..Len(questionAnswerPairs) :
       questionAnswerPairs[i].question # <<>> /\ questionAnswerPairs[i].answer # <<>>

StoresUnchanged ==
  UNCHANGED <<knowledgeBase, questionAnswerPairs, fuseInstance, qaPairsFuse,
              storedKnowledge, storedQuestionAnswers>>

\* C22: through the text form, the question-answer form and the bulk import,
\* learnFromText and addQuestionAnswer never get a title, content, question
\* or answer that is empty after trimming, and a submission with such a part
\* (or a bulk text with no pair) leaves the stores unchanged.
C22_BoundaryValidation ==
  [][ /\ NothingBlankStored'
      /\ \A title \in FormTitles, content \in FormContents :
           (handleLearnFromText(title, content)
              /\ (trim(title) = <<>> \/ trim(content) = <<>>)) => StoresUnchanged
      /\ \A question \in FormQuestions, answer \in FormAnswers :
           (handleAddQuestionAnswer(question, answer)
              /\ (trim(question) = <<>> \/ trim(answer) = <<>>)) => StoresUnchanged
      /\ \A bulkText \in BulkTexts :
           (processBulkQA(bulkText) /\ ~StoresUnchanged) =>
              /\ Len(questionAnswerPairs') > Len(questionAnswerPairs)
              /\ SubSeq(questionAnswerPairs', 1, Len(questionAnswerPairs))
                   = questionAnswerPairs ]_vars

\* a title of white space only was turned down while an item was stored
C22_Witness ==
  /\ aiLast.op = "handleLearnFromText"
  /\ aiLast.response = <<"rejected">>
  /\ aiLast.first = <<" ">>
  /\ aiLast.second # <<>>
  /\ Len(knowledgeBase) > 0

====
